---------------------------- MODULE Spec2Model ----------------------------
(***************************************************************************)
(* Asset-inventory registry (Inventario / Storage / App): the in-memory    *)
(* indexed asset collection, the scan-registration state machine, the      *)
(* bounded history log and their persistence in localStorage.              *)
(*                                                                         *)
(* A JavaScript string is a sequence of one-character strings, so that     *)
(* trim(), toUpperCase() and the sanitizer are computed, not assumed.      *)
(***************************************************************************)
EXTENDS Integers, Sequences, FiniteSets, TLC

(***************************************************************************)
(* Bounds of the model                                                     *)
(***************************************************************************)
\* number of handlers in a behaviour
MaxPassos == 3
\* number of handlers in a behaviour during which localStorage refuses a write
MaxFalhas == 1
\* number of camera operations (iniciar, Quagga's answer, a detection, parar)
\* in a behaviour of the camera
MaxPassosCamera == 6
\* number of identifiers in the large collection of the history scenario
\* beyond the capacity of the log
ExtraIds == 2

(***************************************************************************)
(* Strings                                                                 *)
(***************************************************************************)
Minusculas == <<"a","b","c","d","e","f","g","h","i","j","k","l","m",
                "n","o","p","q","r","s","t","u","v","w","x","y","z">>
Maiusculas == <<"A","B","C","D","E","F","G","H","I","J","K","L","M",
                "N","O","P","Q","R","S","T","U","V","W","X","Y","Z">>
Digitos == <<"0","1","2","3","4","5","6","7","8","9">>
Espacos == {" ", "\t", "\n", "\r"}

Imagem(s) == {s[i] : i \in DOMAIN s}

\* the value of an absent property of a record (JavaScript undefined)
Ausente == <<"undefined">>

\* the upper-case letter of each lower-case letter
TabelaMaiusculas ==
    [c \in Imagem(Minusculas) |->
        Maiusculas[CHOOSE i \in DOMAIN Minusculas : Minusculas[i] = c]]

\* String.prototype.toUpperCase on one character
MaiusculaDe(c) == IF c \in DOMAIN TabelaMaiusculas THEN TabelaMaiusculas[c] ELSE c

toUpperCase(s) == [i \in DOMAIN s |-> MaiusculaDe(s[i])]

\* the lower-case letter of each upper-case letter
TabelaMinusculas ==
    [c \in Imagem(Maiusculas) |->
        Minusculas[CHOOSE i \in DOMAIN Maiusculas : Maiusculas[i] = c]]

\* String.prototype.toLowerCase
toLowerCase(s) ==
    [i \in DOMAIN s |-> IF s[i] \in DOMAIN TabelaMinusculas THEN TabelaMinusculas[s[i]]
                         ELSE s[i]]

\* String.prototype.includes
includes(s, termo) ==
    \E i \in 1..(Len(s) + 1) :
        /\ i + Len(termo) - 1 <= Len(s)
        /\ SubSeq(s, i, i + Len(termo) - 1) = termo

\* Utils.normalizar on a string without accents; '' for a falsy value
normalizar(str) == IF str = Ausente \/ str = <<>> THEN <<>> ELSE toLowerCase(str)

\* String.prototype.trim
trim(s) ==
    LET naoEsp == {i \in DOMAIN s : s[i] \notin Espacos}
    IN  IF naoEsp = {} THEN <<>>
        ELSE SubSeq(s, CHOOSE i \in naoEsp : \A j \in naoEsp : i <= j,
                       CHOOSE i \in naoEsp : \A j \in naoEsp : j <= i)

\* \w of a JavaScript regular expression
EhPalavra(c) ==
    \/ c \in Imagem(Minusculas) \/ c \in Imagem(Maiusculas)
    \/ c \in Imagem(Digitos) \/ c = "_"

\* does s, read from position i, start with lit (case-insensitive)
ComecaCom(s, i, lit) ==
    /\ i + Len(lit) - 1 <= Len(s)
    /\ \A k \in DOMAIN lit : MaiusculaDe(s[i + k - 1]) = MaiusculaDe(lit[k])

\* textContent -> innerHTML of a text node: &, < and > become entities
EscaparHTML(c) ==
    CASE c = "&" -> <<"&","a","m","p",";">>
      [] c = "<" -> <<"&","l","t",";">>
      [] c = ">" -> <<"&","g","t",";">>
      [] OTHER   -> <<c>>

RECURSIVE innerHTML(_)
innerHTML(s) == IF s = <<>> THEN <<>> ELSE EscaparHTML(Head(s)) \o innerHTML(Tail(s))

JavascriptLit == <<"j","a","v","a","s","c","r","i","p","t",":">>

\* .replace(/javascript:/gi, '') read from position i
RECURSIVE RemoverJavascript(_, _)
RemoverJavascript(s, i) ==
    IF i > Len(s) THEN <<>>
    ELSE IF ComecaCom(s, i, JavascriptLit)
         THEN RemoverJavascript(s, i + Len(JavascriptLit))
         ELSE <<s[i]>> \o RemoverJavascript(s, i + 1)

\* end of the run of \w characters that starts at position i (i - 1 if none)
RECURSIVE FimPalavras(_, _)
FimPalavras(s, i) ==
    IF i <= Len(s) /\ EhPalavra(s[i]) THEN FimPalavras(s, i + 1) ELSE i - 1

\* length of the match of /on\w+=/i at position i, 0 when there is none:
\* "on", the maximal non-empty run of \w, then "="
CasaOn(s, i) ==
    IF ComecaCom(s, i, <<"o","n">>)
    THEN LET f == FimPalavras(s, i + 2)
         IN  IF f >= i + 2 /\ f + 1 <= Len(s) /\ s[f + 1] = "="
             THEN f + 1 - i + 1 ELSE 0
    ELSE 0

\* .replace(/on\w+=/gi, '') read from position i
RECURSIVE RemoverOn(_, _)
RemoverOn(s, i) ==
    IF i > Len(s) THEN <<>>
    ELSE IF CasaOn(s, i) > 0
         THEN RemoverOn(s, i + CasaOn(s, i))
         ELSE <<s[i]>> \o RemoverOn(s, i + 1)

\* Utils.sanitizar on a string value
sanitizar(str) == trim(RemoverOn(RemoverJavascript(innerHTML(str), 1), 1))

\* Utils.sanitizarObjeto: every own property is sanitized, an absent one stays absent
sanitizarCampo(v) == IF v = Ausente THEN Ausente ELSE sanitizar(v)

sanitizarObjeto(obj) ==
    [patrimonio          |-> sanitizarCampo(obj.patrimonio),
     uorg_destino        |-> sanitizarCampo(obj.uorg_destino),
     coordenacao_destino |-> sanitizarCampo(obj.coordenacao_destino)]

\* Utils.validarPatrimonio
validarPatrimonio(patrimonio) ==
    /\ patrimonio # <<>>
    /\ Len(trim(patrimonio)) > 0
    /\ Len(trim(patrimonio)) <= 50

(***************************************************************************)
(* String.prototype.localeCompare: primary weights first (white space,     *)
(* punctuation, symbols, digits, letters without case), then case with the *)
(* lower-case letter first.                                                *)
(***************************************************************************)
OrdemPrimaria ==
    <<"\t", "\n", "\r", " ", "_", "-", ",", ";", ":", "!", "?", ".", "'",
      "(", ")", "@", "*", "/", "&", "#", "%", "+", "<", "=", ">", "$">>
    \o Digitos \o Maiusculas

TabelaPesos ==
    [c \in Imagem(OrdemPrimaria) |->
        CHOOSE i \in DOMAIN OrdemPrimaria : OrdemPrimaria[i] = c]

Peso(c) ==
    LET u == MaiusculaDe(c)
    IN  IF u \in DOMAIN TabelaPesos THEN TabelaPesos[u] ELSE 0

PesoCaso(c) == IF c \in Imagem(Maiusculas) THEN 1 ELSE 0

\* lexicographic comparison of two sequences of integers: -1, 0 or 1
RECURSIVE CompararPesos(_, _)
CompararPesos(x, y) ==
    IF x = <<>> /\ y = <<>> THEN 0
    ELSE IF x = <<>> THEN -1
    ELSE IF y = <<>> THEN 1
    ELSE IF Head(x) < Head(y) THEN -1
    ELSE IF Head(x) > Head(y) THEN 1
    ELSE CompararPesos(Tail(x), Tail(y))

localeCompare(a, b) ==
    LET prim == CompararPesos([i \in DOMAIN a |-> Peso(a[i])],
                              [i \in DOMAIN b |-> Peso(b[i])])
    IN  IF prim # 0 THEN prim
        ELSE CompararPesos([i \in DOMAIN a |-> PesoCaso(a[i])],
                           [i \in DOMAIN b |-> PesoCaso(b[i])])

\* the characters in the order of their UTF-16 code units
OrdemCodigos ==
    <<"\t", "\n", "\r", " ", "!", "#", "$", "%", "&", "'", "(", ")", "*", "+",
      ",", "-", ".", "/">> \o Digitos \o <<":", ";", "<", "=", ">", "?", "@">>
    \o Maiusculas \o <<"_">> \o Minusculas

TabelaCodigos ==
    [c \in Imagem(OrdemCodigos) |->
        CHOOSE i \in DOMAIN OrdemCodigos : OrdemCodigos[i] = c]

CodigoDe(c) == IF c \in DOMAIN TabelaCodigos THEN TabelaCodigos[c] ELSE 0

\* the comparison of two strings by the default order of Array.prototype.sort
compararCodigos(a, b) ==
    CompararPesos([i \in DOMAIN a |-> CodigoDe(a[i])], [i \in DOMAIN b |-> CodigoDe(b[i])])

(***************************************************************************)
(* Sequences                                                               *)
(***************************************************************************)
Ultimo(s) == s[Len(s)]
Frente(s) == SubSeq(s, 1, Len(s) - 1)

\* Array.prototype.unshift
unshift(s, e) == <<e>> \o s

\* Array.prototype.slice(0, n)
slice0(s, n) == SubSeq(s, 1, IF n < Len(s) THEN n ELSE Len(s))

\* the permutations of a sequence
Permutacoes(s) ==
    {[i \in DOMAIN s |-> s[f[i]]] :
        f \in {g \in [DOMAIN s -> DOMAIN s] : \A i, j \in DOMAIN s : i # j => g[i] # g[j]}}

(***************************************************************************)
(* Asset records and the registration-mark object                          *)
(***************************************************************************)
Item(p, u, c) == [patrimonio |-> p, uorg_destino |-> u, coordenacao_destino |-> c]

\* no asset (null)
SemItem == Item(Ausente, Ausente, Ausente)

\* reading a property of the mark object that it does not have, and that
\* Object.prototype does not have either
INDEFINIDO == 0
\* reading a property inherited from Object.prototype: a function, not a date
HERDADO == -1

KeyConstructor == <<"c","o","n","s","t","r","u","c","t","o","r">>
KeyToString == <<"t","o","S","t","r","i","n","g">>
KeyValueOf == <<"v","a","l","u","e","O","f">>

\* property names every plain object inherits
ObjectPrototypeKeys == {KeyConstructor, KeyToString, KeyValueOf}

SemBipagens == [k \in {} |-> 0]

\* bip[chave] on the plain object bip
LerBipagem(bip, chave) ==
    IF chave \in DOMAIN bip THEN bip[chave]
    ELSE IF chave \in ObjectPrototypeKeys THEN HERDADO
    ELSE INDEFINIDO

\* truthiness of bip[chave]
TemBipagem(bip, chave) == LerBipagem(bip, chave) # INDEFINIDO

\* a faulty bip[chave] = agora that starts from an empty object
GravarBipagem_soNova(bip, chave, agora) == [k \in {chave} |-> agora]

\* bip[chave] = agora
GravarBipagem(bip, chave, agora) ==
    [k \in DOMAIN bip \cup {chave} |-> IF k = chave THEN agora ELSE bip[k]]

\* new Date(dataB) - new Date(dataA) is NaN when one of them is not a date
DataValida(bip, chave) == LerBipagem(bip, chave) > 0

(***************************************************************************)
(* Scan results and history entries                                        *)
(***************************************************************************)
MAX_HISTORICO == 50

Resultado(st, p, it, dataBip, ts) ==
    [status |-> st, patrimonio |-> p, item |-> it, data_bipagem |-> dataBip,
     timestamp |-> ts]

SemResultado == Resultado("nenhum", Ausente, SemItem, INDEFINIDO, 0)

SemLote == [sucesso |-> <<>>, jaBipado |-> <<>>, naoEncontrado |-> <<>>]

(***************************************************************************)
(* localStorage: a key holds a value or is absent                          *)
(***************************************************************************)
Presente(v) == [presente |-> TRUE, valor |-> v]
AusenteInventario == [presente |-> FALSE, valor |-> <<>>]
AusenteBipagens == [presente |-> FALSE, valor |-> SemBipagens]
AusenteHistorico == [presente |-> FALSE, valor |-> <<>>]

ArmazenamentoVazio ==
    [inventario |-> AusenteInventario, bipagens |-> AusenteBipagens,
     historico |-> AusenteHistorico]

\* Storage.salvar: setItem either stores the value or throws (quota), and
\* the exception is swallowed
salvar(antigo, data, ok) == IF ok THEN Presente(data) ELSE antigo

\* JSON.parse(JSON.stringify(hist)) for a history log: a property whose value
\* is a function (data_bipagem read from Object.prototype) is left out, the
\* strings and the records are kept
JSONHistorico(hist) ==
    [i \in DOMAIN hist |->
        [hist[i] EXCEPT !.data_bipagem = IF @ = HERDADO THEN INDEFINIDO ELSE @]]

\* Storage.salvarHistorico
salvarHistorico(antigo, hist, ok) == salvar(antigo, JSONHistorico(hist), ok)

\* Storage.carregar: the stored value, or the default when the key is absent
carregar(celula, defaultValue) == IF celula.presente THEN celula.valor ELSE defaultValue

(***************************************************************************)
(* State                                                                   *)
(***************************************************************************)
VARIABLES
    itens,                \* _itens
    bipagens,             \* _bipagens
    historico,            \* _historico
    indexPatrimonio,      \* _indexPatrimonio
    indexPorCoordenacao,  \* _indexPorCoordenacao
    listaLocalizados,     \* _listaLocalizados
    listaPendentes,       \* _listaPendentes
    listaBipados,         \* _listaBipados
    estatisticas,         \* _estatisticas
    armazenado,           \* localStorage, keys inventario_v4 / bipagens_v4 / historico_v4
    relogio,              \* the last instant read from the system clock
    camera,               \* Camera: _ativa, _ultimoCodigo, _ultimaLeitura, ...
    ambiente,             \* Quagga and the system clock in milliseconds
    observado,            \* what the camera did last and what it has delivered
    nPassos,              \* handlers run so far
    nFalhas,              \* handlers so far during which a write was refused
    ultimo                \* the last handler run, its input and what it returned

vars == <<itens, bipagens, historico, indexPatrimonio, indexPorCoordenacao,
          listaLocalizados, listaPendentes, listaBipados, estatisticas,
          armazenado, relogio, camera, ambiente, observado, nPassos, nFalhas,
          ultimo>>

\* one more handler of the page runs, up to limite of them in a behaviour; the
\* camera is not running
Passo(limite) ==
    /\ nPassos < limite
    /\ nPassos' = nPassos + 1
    /\ UNCHANGED <<camera, ambiente, observado>>

(***************************************************************************)
(* Camera: the state of the module when the page is loaded                 *)
(***************************************************************************)
\* the window of the suppression of repeated reads, in milliseconds
JANELA_MS == 2000

\* let _ativa = false; ... let _onCodigoLido = null;
CameraParada ==
    [ativa |-> FALSE, ultimoCodigo |-> <<>>, ultimaLeitura |-> 0,
     deteccaoCount |-> 0, onCodigoLido |-> FALSE]

\* Quagga before any call: no Quagga.init awaits its answer, the decoder is not
\* started, _onDeteccao is not subscribed; Date.now() is far from zero
AmbienteInicial ==
    [pendentes |-> 0, iniciado |-> FALSE, ouvindo |-> FALSE,
     instante |-> 2 * JANELA_MS]

\* no code was ever delivered to the callback
SemEntregas ==
    [op |-> "nenhuma", codigo |-> <<>>, instante |-> 0, entregue |-> FALSE,
     ultimaEntrega |-> <<>>, instanteUltimaEntrega |-> 0,
     entregas |-> <<>>, parado |-> FALSE]

CameraInicial ==
    /\ camera = CameraParada
    /\ ambiente = AmbienteInicial
    /\ observado = SemEntregas

\* the writes named in falhas may be refused during this handler
Falhar(falhas) ==
    /\ falhas # {} => nFalhas < MaxFalhas
    /\ nFalhas' = IF falhas = {} THEN nFalhas ELSE nFalhas + 1

(***************************************************************************)
(* Inventario.reconstruirIndices                                           *)
(***************************************************************************)
\* (item.patrimonio || '').toUpperCase()
patrimonioUpper(item) ==
    toUpperCase(IF item.patrimonio = Ausente THEN <<>> ELSE item.patrimonio)

\* a faulty index that keeps the first record of a key
IndexPatrimonioDe_primeiroVence(its) ==
    [k \in {patrimonioUpper(its[i]) : i \in DOMAIN its} |->
        its[CHOOSE i \in DOMAIN its :
                /\ patrimonioUpper(its[i]) = k
                /\ \A j \in DOMAIN its : patrimonioUpper(its[j]) = k => i <= j]]

\* _indexPatrimonio after the loop: a later record of a key replaces the
\* earlier one
IndexPatrimonioDe(its) ==
    [k \in {patrimonioUpper(its[i]) : i \in DOMAIN its} |->
        its[CHOOSE i \in DOMAIN its :
                /\ patrimonioUpper(its[i]) = k
                /\ \A j \in DOMAIN its : patrimonioUpper(its[j]) = k => j <= i]]

\* a faulty key that turns an absent value into a string:
\* String(item.coordenacao_destino).trim()
coordDe_semPadrao(item) == trim(item.coordenacao_destino)

\* (item.coordenacao_destino || '').trim()
coordDe(item) ==
    IF item.coordenacao_destino = Ausente THEN <<>> ELSE trim(item.coordenacao_destino)

\* _indexPorCoordenacao after the loop
IndexPorCoordenacaoDe(its) ==
    [c \in {coordDe(its[i]) : i \in DOMAIN its} \ {<<>>} |->
        LET daCoord(it) == coordDe(it) = c IN SelectSeq(its, daCoord)]

\* item.uorg_destino && item.uorg_destino.trim() !== ''
temUorg(item) ==
    /\ item.uorg_destino # Ausente
    /\ item.uorg_destino # <<>>
    /\ trim(item.uorg_destino) # <<>>

\* Array.prototype.sort with (a, b) => a.patrimonio.localeCompare(b.patrimonio):
\* a stable sort, so an item goes after the items that compare lower and after
\* the earlier items that compare equal
OrdenarPorPatrimonio(s) ==
    LET antes(j, i) ==
            LET c == localeCompare(s[j].patrimonio, s[i].patrimonio)
            IN  c < 0 \/ (c = 0 /\ j < i)
        pos == [i \in DOMAIN s |-> 1 + Cardinality({j \in DOMAIN s : antes(j, i)})]
    IN  [k \in DOMAIN s |-> s[CHOOSE i \in DOMAIN s : pos[i] = k]]

ListaLocalizadosDe(its) ==
    LET loc(it) == temUorg(it) IN OrdenarPorPatrimonio(SelectSeq(its, loc))

ListaPendentesDe(its) ==
    LET pend(it) == ~temUorg(it) IN OrdenarPorPatrimonio(SelectSeq(its, pend))

\* Array.prototype.sort with (a, b) => new Date(dataB) - new Date(dataA) on
\* valid dates: stable, latest first
OrdenarPorData(s, bip) ==
    LET antes(j, i) ==
            \/ LerBipagem(bip, s[j].patrimonio) > LerBipagem(bip, s[i].patrimonio)
            \/ (LerBipagem(bip, s[j].patrimonio) = LerBipagem(bip, s[i].patrimonio) /\ j < i)
        pos == [i \in DOMAIN s |-> 1 + Cardinality({j \in DOMAIN s : antes(j, i)})]
    IN  [k \in DOMAIN s |-> s[CHOOSE i \in DOMAIN s : pos[i] = k]]

\* the items with a truthy _bipagens[item.patrimonio], sorted by
\* new Date(dataB) - new Date(dataA).  When a value is not a date the
\* comparator returns NaN for some pairs, it is not a consistent comparator
\* and the order Array.prototype.sort leaves is implementation-defined.
ListasBipadosDe(its, bip) ==
    LET bipado(it) == TemBipagem(bip, it.patrimonio)
        sel == SelectSeq(its, bipado)
    IN  IF Len(sel) >= 2 /\ \E i \in DOMAIN sel : ~DataValida(bip, sel[i].patrimonio)
        THEN Permutacoes(sel)
        ELSE {OrdenarPorData(sel, bip)}

\* Math.round(x / y * 100) for naturals x and y > 0
PercentualDe(x, y) == (200 * x + y) \div (2 * y)

\* Inventario._atualizarEstatisticas
EstatisticasDe(its, loc, pend, bip) ==
    [total       |-> Len(its),
     localizados |-> Len(loc),
     pendentes   |-> Len(pend),
     bipados     |-> Cardinality(DOMAIN bip),
     percentual  |-> IF Len(its) > 0 THEN PercentualDe(Len(loc), Len(its)) ELSE 0]

\* Inventario.reconstruirIndices on the collection its and the marks bip
reconstruirIndices(its, bip) ==
    /\ indexPatrimonio' = IndexPatrimonioDe(its)
    /\ indexPorCoordenacao' = IndexPorCoordenacaoDe(its)
    /\ listaLocalizados' = ListaLocalizadosDe(its)
    /\ listaPendentes' = ListaPendentesDe(its)
    /\ listaBipados' \in ListasBipadosDe(its, bip)
    /\ estatisticas' = EstatisticasDe(its, ListaLocalizadosDe(its), ListaPendentesDe(its), bip)

(***************************************************************************)
(* Inventario: lookup, registration, history                               *)
(***************************************************************************)
\* Inventario.buscarPorPatrimonio; SemItem stands for null
buscarPorPatrimonio(patrimonio) ==
    IF patrimonio = <<>> THEN SemItem
    ELSE LET key == toUpperCase(trim(patrimonio))
         IN  IF key \in DOMAIN indexPatrimonio THEN indexPatrimonio[key] ELSE SemItem

\* a faulty registrarBipagem that saves the marks again on 'ja_bipado'
registrarBipagem_salvaSempre(bip, patrimonio, agora) ==
    LET patrimonioLimpo == trim(patrimonio)
        item == buscarPorPatrimonio(patrimonioLimpo)
    IN  IF item = SemItem
        THEN [res |-> Resultado("nao_encontrado", patrimonioLimpo, SemItem, INDEFINIDO, agora),
              bip |-> bip, salvou |-> FALSE]
        ELSE IF TemBipagem(bip, item.patrimonio)
        THEN [res |-> Resultado("ja_bipado", item.patrimonio, item,
                                LerBipagem(bip, item.patrimonio), agora),
              bip |-> bip, salvou |-> TRUE]
        ELSE [res |-> Resultado("sucesso", item.patrimonio, item, INDEFINIDO, agora),
              bip |-> GravarBipagem(bip, item.patrimonio, agora), salvou |-> TRUE]

\* a faulty registrarBipagem that reports a miss under the key of the lookup,
\* in upper case
registrarBipagem_chaveDoIndice(bip, patrimonio, agora) ==
    LET patrimonioLimpo == trim(patrimonio)
        item == buscarPorPatrimonio(patrimonioLimpo)
    IN  IF item = SemItem
        THEN [res |-> Resultado("nao_encontrado", toUpperCase(patrimonioLimpo), SemItem,
                                INDEFINIDO, agora),
              bip |-> bip, salvou |-> FALSE]
        ELSE IF TemBipagem(bip, item.patrimonio)
        THEN [res |-> Resultado("ja_bipado", item.patrimonio, item,
                                LerBipagem(bip, item.patrimonio), agora),
              bip |-> bip, salvou |-> FALSE]
        ELSE [res |-> Resultado("sucesso", item.patrimonio, item, INDEFINIDO, agora),
              bip |-> GravarBipagem(bip, item.patrimonio, agora), salvou |-> TRUE]

\* a faulty registrarBipagem that reads and writes the mark under the scanned
\* string (trimmed) instead of the identifier of the record found
registrarBipagem_chaveLida(bip, patrimonio, agora) ==
    LET patrimonioLimpo == trim(patrimonio)
        item == buscarPorPatrimonio(patrimonioLimpo)
    IN  IF item = SemItem
        THEN [res |-> Resultado("nao_encontrado", patrimonioLimpo, SemItem, INDEFINIDO, agora),
              bip |-> bip, salvou |-> FALSE]
        ELSE IF TemBipagem(bip, patrimonioLimpo)
        THEN [res |-> Resultado("ja_bipado", item.patrimonio, item,
                                LerBipagem(bip, patrimonioLimpo), agora),
              bip |-> bip, salvou |-> FALSE]
        ELSE [res |-> Resultado("sucesso", item.patrimonio, item, INDEFINIDO, agora),
              bip |-> GravarBipagem(bip, patrimonioLimpo, agora), salvou |-> TRUE]

\* Inventario.registrarBipagem on the marks bip at the instant agora: the
\* result returned, the marks afterwards and whether salvarBipagens was called
registrarBipagem(bip, patrimonio, agora) ==
    LET patrimonioLimpo == trim(patrimonio)
        item == buscarPorPatrimonio(patrimonioLimpo)
    IN  IF item = SemItem
        THEN [res |-> Resultado("nao_encontrado", patrimonioLimpo, SemItem, INDEFINIDO, agora),
              bip |-> bip, salvou |-> FALSE]
        ELSE IF TemBipagem(bip, item.patrimonio)
        THEN [res |-> Resultado("ja_bipado", item.patrimonio, item,
                                LerBipagem(bip, item.patrimonio), agora),
              bip |-> bip, salvou |-> FALSE]
        ELSE [res |-> Resultado("sucesso", item.patrimonio, item, INDEFINIDO, agora),
              bip |-> GravarBipagem(bip, item.patrimonio, agora), salvou |-> TRUE]

\* a faulty adicionarHistorico that keeps one entry per identifier
adicionarHistorico_semRepetir(hist, entrada) ==
    IF \E i \in DOMAIN hist : hist[i].patrimonio = entrada.patrimonio
    THEN hist
    ELSE LET h == unshift(hist, entrada)
         IN  IF Len(h) > MAX_HISTORICO THEN Frente(h) ELSE h

\* Inventario.adicionarHistorico: the log afterwards
adicionarHistorico(hist, entrada) ==
    LET h == unshift(hist, entrada)
    IN  IF Len(h) > MAX_HISTORICO THEN Frente(h) ELSE h

\* Inventario.verificarBipagem: _bipagens[patrimonio] || null, INDEFINIDO
\* standing for null
verificarBipagem(patrimonio) == LerBipagem(bipagens, patrimonio)

\* a faulty obterHistorico that returns the oldest entries: slice(-limite)
obterHistorico_maisAntigas(limite) ==
    IF limite = 0 THEN historico
    ELSE SubSeq(historico,
                IF limite < Len(historico) THEN Len(historico) - limite + 1 ELSE 1,
                Len(historico))

\* Inventario.obterHistorico
obterHistorico(limite) == slice0(historico, limite)

\* Inventario.obterEstatisticas: the cache is recomputed, then copied
obterEstatisticas == EstatisticasDe(itens, listaLocalizados, listaPendentes, bipagens)

\* a faulty obterPorCoordenacao that looks the key up as it is given
obterPorCoordenacao_semTrim(coordenacao) ==
    IF coordenacao = Ausente \/ coordenacao = <<>> THEN <<>>
    ELSE IF coordenacao \in DOMAIN indexPorCoordenacao
         THEN indexPorCoordenacao[coordenacao] ELSE <<>>

\* Inventario.obterPorCoordenacao; Ausente stands for null and undefined
obterPorCoordenacao(coordenacao) ==
    IF coordenacao = Ausente \/ coordenacao = <<>> THEN <<>>
    ELSE IF trim(coordenacao) \in DOMAIN indexPorCoordenacao
         THEN indexPorCoordenacao[trim(coordenacao)] ELSE <<>>

\* Inventario.listarCoordenacoes: the keys of the Map, sorted by code units
listarCoordenacoes ==
    LET chaves == DOMAIN indexPorCoordenacao
    IN  [k \in 1..Cardinality(chaves) |->
            CHOOSE c \in chaves :
                Cardinality({d \in chaves : compararCodigos(d, c) < 0}) = k - 1]

\* the filter of obterLocalizados, obterPendentes and obterBipados; the
\* records of the model have no descricao, which the code reads as ''
filtrarPorBusca(lista, busca) ==
    IF busca = <<>> THEN lista
    ELSE LET casa(item) ==
                 \/ includes(normalizar(item.patrimonio), normalizar(busca))
                 \/ includes(<<>>, normalizar(busca))
         IN  SelectSeq(lista, casa)

\* Inventario.obterLocalizados
obterLocalizados(busca) == filtrarPorBusca(listaLocalizados, busca)

\* Inventario.obterPendentes
obterPendentes(busca) == filtrarPorBusca(listaPendentes, busca)

\* where the code dereferences a field without a guard:
\* a.patrimonio.localeCompare(...) in the comparator of a sort throws when the
\* record handed over as a has no patrimonio; which records the sort hands
\* over as a is its own business, so a list of two or more may throw
ordenarLanca(s) == Len(s) >= 2 /\ \E i \in DOMAIN s : s[i].patrimonio = Ausente

\* can reconstruirIndices throw on the collection its: item.patrimonio of a
\* null record in the loop, or the comparator of a sort
reconstruirIndicesLanca(its) ==
    LET loc(it) == temUorg(it)
        pend(it) == ~temUorg(it)
    IN  \/ \E i \in DOMAIN its : its[i] = SemItem
        \/ ordenarLanca(SelectSeq(its, loc))
        \/ ordenarLanca(SelectSeq(its, pend))

(***************************************************************************)
(* Inputs                                                                  *)
(***************************************************************************)
PA == <<"a">>
PAMaiusculo == <<"A">>
PB == <<"b">>
PZ == <<"z">>
Vazio == <<>>

\* collections as CSV.parse hands them to Inventario.importar
InvExemplo == <<Item(PA, Vazio, Vazio), Item(PB, <<"F">>, <<"K">>)>>
InvCaixa == <<Item(PA, <<"F">>, <<"K">>), Item(PA, Vazio, Vazio),
              Item(PAMaiusculo, Vazio, <<"K">>)>>
InvProto == <<Item(KeyConstructor, Ausente, Ausente), Item(PB, Ausente, Ausente)>>

\* the row "&;F" of a CSV file, as CSV.parse returns it: Utils.sanitizar has
\* turned the identifier & into &amp;
InvEscapado == <<Item(<<"&", "a", "m", "p", ";">>, <<"F">>, Vazio)>>

Inventarios == {InvExemplo, InvCaixa, InvProto, InvEscapado}

\* a collection with two values of coordenacao_destino, neither the records
\* nor the values in ascending order
InvGrupos == <<Item(PZ, <<"F">>, <<"Z">>), Item(PB, Vazio, <<"K">>),
               Item(PA, <<"F">>, <<"Z">>)>>

\* a file as CSV.parse sees it once the text is split: texto tells whether the
\* content is a non-empty string, cabecalhos are the normalized names of the
\* columns of the first line, linhas are the values of the other lines
Arquivo(texto, cabecalhos, linhas) ==
    [texto |-> texto, cabecalhos |-> cabecalhos, linhas |-> linhas]

\* item[coluna] after the loop over the columns: the column may be absent, a
\* later column of the same name wins, a missing value is ''
valorDaColuna(cabecalhos, valores, coluna) ==
    LET js == {j \in DOMAIN cabecalhos : cabecalhos[j] = coluna}
    IN  IF js = {} THEN Ausente
        ELSE LET j == CHOOSE j \in js : \A k \in js : k <= j
             IN  sanitizar(IF j <= Len(valores) THEN valores[j] ELSE <<>>)

\* CSV.parse: the field dados of what it returns
parse(arq) ==
    IF ~arq.texto THEN <<>>
    ELSE IF 1 + Len(arq.linhas) < 2 THEN <<>>
    ELSE IF "patrimonio" \notin Imagem(arq.cabecalhos) THEN <<>>
    ELSE LET item(valores) ==
                 Item(valorDaColuna(arq.cabecalhos, valores, "patrimonio"),
                      valorDaColuna(arq.cabecalhos, valores, "uorg_destino"),
                      valorDaColuna(arq.cabecalhos, valores, "coordenacao_destino"))
             todos == [i \in DOMAIN arq.linhas |-> item(arq.linhas[i])]
             comPatrimonio(it) == it.patrimonio # <<>> /\ trim(it.patrimonio) # <<>>
         IN  SelectSeq(todos, comPatrimonio)

\* files the user can choose: an empty one, one with the header alone, one
\* without the column patrimonio, one whose lines all lack the identifier,
\* and one with two good lines (the second one short) around a bad one
ArqVazio == Arquivo(FALSE, <<>>, <<>>)
ArqSoCabecalho == Arquivo(TRUE, <<"patrimonio", "uorg_destino">>, <<>>)
ArqSemPatrimonio == Arquivo(TRUE, <<"uorg_destino">>, << <<(<<"F">>)>> >>)
ArqSemLinhaValida ==
    Arquivo(TRUE, <<"patrimonio", "uorg_destino">>, << <<Vazio, <<"F">>>>, <<(<<" ">>)>> >>)
ArqBom ==
    Arquivo(TRUE, <<"patrimonio", "uorg_destino">>,
            << <<PB, <<"F">>>>, <<Vazio, <<"F">>>>, <<PA>> >>)

Arquivos == {ArqVazio, ArqSoCabecalho, ArqSemPatrimonio, ArqSemLinhaValida, ArqBom}

\* what Inventario.importar can be called with: a value that may not be an
\* array, whose elements may be null (SemItem)
Carga(sequencia, registros) == [sequencia |-> sequencia, registros |-> registros]

Cargas == {Carga(FALSE, <<>>), Carga(TRUE, <<SemItem>>),
           Carga(TRUE, <<Item(PB, <<"F">>, <<"K">>), SemItem>>),
           Carga(TRUE, InvGrupos)}

\* what the scanner, the camera or the keyboard can deliver
Leituras == {PA, <<" ", "A", " ">>, PB, KeyConstructor, PZ, Vazio}

\* texts pasted in the batch field
Lotes == {<<"a", ",", "a", ";", "b">>, <<"a", "\n", "A", ",", " ", "z">>}

\* entries of a history log kept in a backup file
EntradaAntiga == Resultado("sucesso", PZ, Item(PZ, Vazio, Vazio), INDEFINIDO, 1)
HistoricoAntigo(n) == [i \in 1..n |-> EntradaAntiga]

\* what a part of backup.dados can be: of the type the part should have
\* ("certo"), undefined or null ("ausente"), a falsy value of another type
\* such as 0 or '' ("falso"), a truthy value of another type ("outro")
TiposDeParte == {"certo", "ausente", "falso", "outro"}

TiposCertos == [inventario |-> "certo", bipagens |-> "certo", historico |-> "certo"]

\* backup files: the JSON documents handed to Storage.importarBackup; nothing
\* ties their content to what this program exported.  objeto tells whether
\* the document is an object, temDados whether backup.dados is truthy, tipos
\* what each part of backup.dados is
Backup(inv, bip, hist) ==
    [objeto |-> TRUE, temDados |-> TRUE, tipos |-> TiposCertos,
     inventario |-> inv, bipagens |-> bip, historico |-> hist]

BackupSemDados ==
    [objeto |-> TRUE, temDados |-> FALSE, tipos |-> TiposCertos,
     inventario |-> <<>>, bipagens |-> SemBipagens, historico |-> <<>>]

\* a document without usable parts: objeto, temDados and the types are given
BackupTipado(objeto, temDados, tInv, tBip, tHist) ==
    [objeto |-> objeto, temDados |-> temDados,
     tipos |-> [inventario |-> tInv, bipagens |-> tBip, historico |-> tHist],
     inventario |-> <<>>, bipagens |-> SemBipagens, historico |-> <<>>]

\* documents that are not backups: a number, {dados: {inventario: {}}},
\* {dados: {bipagens: 'x'}}, {dados: {historico: {}}}
BackupsInvalidos ==
    {BackupTipado(FALSE, FALSE, "ausente", "ausente", "ausente"),
     BackupTipado(TRUE, TRUE, "outro", "certo", "certo"),
     BackupTipado(TRUE, TRUE, "certo", "outro", "certo"),
     BackupTipado(TRUE, TRUE, "certo", "certo", "outro")}

\* {dados: {inventario: 0, historico: ''}}: parts that are falsy and of
\* another type, and a part that is missing
BackupComFalsos == BackupTipado(TRUE, TRUE, "falso", "ausente", "falso")

\* a backup whose inventario is an array with a null in it
BackupComNulo == Backup(<<Item(PB, <<"F">>, <<"K">>), SemItem>>, (PB :> 2), <<>>)

\* a backup with two marked assets, the earlier mark first, and between them
\* an asset whose identifier names a property of Object.prototype
BackupProto ==
    Backup(<<Item(PA, <<"F">>, <<"K">>), Item(KeyConstructor, Vazio, Vazio),
             Item(PB, <<"F">>, <<"K">>)>>,
           (PA :> 1) @@ (PB :> 2), <<>>)

Backups ==
    {Backup(InvExemplo, (PA :> 1), HistoricoAntigo(1)),
     BackupProto,
     Backup(<<Item(<<" ", "b">>, <<" ">>, <<" ", "K">>)>>, (PB :> 2), <<>>),
     BackupComNulo,
     BackupComFalsos,
     BackupSemDados} \cup BackupsInvalidos

(***************************************************************************)
(* The last handler                                                        *)
(***************************************************************************)
\* no summary: the handler was not an import
SemResumo == [total |-> 0, localizados |-> 0, pendentes |-> 0]

Registro(op, arg, entrada, res, lote, escritas, falhas) ==
    [op |-> op, arg |-> arg, entrada |-> entrada, res |-> res, lote |-> lote,
     escritas |-> escritas, falhas |-> falhas, resumo |-> SemResumo]

(***************************************************************************)
(* Inventario.inicializar                                                  *)
(***************************************************************************)
\* the position of the first null record of its, 0 when there is none
primeiroNulo(its) ==
    IF \E i \in DOMAIN its : its[i] = SemItem
    THEN CHOOSE i \in DOMAIN its : its[i] = SemItem /\ \A j \in 1..(i - 1) : its[j] # SemItem
    ELSE 0

\* reconstruirIndices interrupted by the exception that the k-th record, a
\* null, raises in the loop: the indices and the lists hold the records
\* before it, not sorted; then the catch of inicializar empties _itens,
\* _bipagens and _historico and calls _atualizarEstatisticas
inicializarInterrompido(its, bip, k) ==
    LET antes == SubSeq(its, 1, k - 1)
        loc(it) == temUorg(it)
        pend(it) == ~temUorg(it)
        bipado(it) == TemBipagem(bip, it.patrimonio)
    IN  /\ indexPatrimonio' = IndexPatrimonioDe(antes)
        /\ indexPorCoordenacao' = IndexPorCoordenacaoDe(antes)
        /\ listaLocalizados' = SelectSeq(antes, loc)
        /\ listaPendentes' = SelectSeq(antes, pend)
        /\ listaBipados' = SelectSeq(antes, bipado)
        /\ itens' = <<>>
        /\ bipagens' = SemBipagens
        /\ historico' = <<>>
        /\ estatisticas' = EstatisticasDe(<<>>, SelectSeq(antes, loc), SelectSeq(antes, pend),
                                          SemBipagens)

\* loads the three values of localStorage arm and rebuilds the indices
inicializar(arm) ==
    IF primeiroNulo(carregar(arm.inventario, <<>>)) = 0
    THEN /\ itens' = carregar(arm.inventario, <<>>)
         /\ bipagens' = carregar(arm.bipagens, SemBipagens)
         /\ historico' = carregar(arm.historico, <<>>)
         /\ reconstruirIndices(carregar(arm.inventario, <<>>),
                               carregar(arm.bipagens, SemBipagens))
    ELSE inicializarInterrompido(carregar(arm.inventario, <<>>),
                                 carregar(arm.bipagens, SemBipagens),
                                 primeiroNulo(carregar(arm.inventario, <<>>)))

Init ==
    /\ itens = <<>>
    /\ bipagens = SemBipagens
    /\ historico = <<>>
    /\ indexPatrimonio = IndexPatrimonioDe(<<>>)
    /\ indexPorCoordenacao = IndexPorCoordenacaoDe(<<>>)
    /\ listaLocalizados = <<>>
    /\ listaPendentes = <<>>
    /\ listaBipados = <<>>
    /\ estatisticas = EstatisticasDe(<<>>, <<>>, <<>>, SemBipagens)
    /\ armazenado = ArmazenamentoVazio
    /\ relogio = 1
    /\ CameraInicial
    /\ nPassos = 0
    /\ nFalhas = 0
    /\ ultimo = Registro("inicializar", <<>>, <<>>, SemResultado, SemLote, {}, {})

\* the page is loaded again: App.inicializar
Recarregar ==
    /\ inicializar(armazenado)
    /\ ultimo' = Registro("inicializar", <<>>, <<>>, SemResultado, SemLote, {}, {})
    /\ UNCHANGED <<armazenado, relogio, nFalhas>>

(***************************************************************************)
(* App._processarLeitura: a single scan, from the keyboard or the camera   *)
(***************************************************************************)
ProcessarLeitura(patrimonio) ==
    /\ IF ~validarPatrimonio(patrimonio)
       THEN /\ ultimo' = Registro("leitura_invalida", patrimonio, <<>>, SemResultado,
                                  SemLote, {}, {})
            /\ UNCHANGED <<itens, bipagens, historico, indexPatrimonio,
                           indexPorCoordenacao, listaLocalizados, listaPendentes,
                           listaBipados, estatisticas, armazenado, relogio, nFalhas>>
       ELSE \E okBip \in BOOLEAN, okHist \in BOOLEAN :
              LET agora == relogio + 1
                  r == registrarBipagem(bipagens, patrimonio, agora)
                  hist == adicionarHistorico(historico, r.res)
              IN  /\ ~r.salvou => okBip
                  /\ Falhar((IF okBip THEN {} ELSE {"bipagens"})
                              \cup (IF okHist THEN {} ELSE {"historico"}))
                  /\ relogio' = agora
                  /\ bipagens' = r.bip
                  /\ historico' = hist
                  /\ armazenado' =
                        [armazenado EXCEPT
                           !.bipagens = IF r.salvou THEN salvar(@, r.bip, okBip) ELSE @,
                           !.historico = salvarHistorico(@, hist, okHist)]
                  /\ estatisticas' = EstatisticasDe(itens, listaLocalizados,
                                                    listaPendentes, r.bip)
                  /\ ultimo' = Registro("leitura", patrimonio, <<>>, r.res, SemLote,
                        (IF r.salvou THEN {"bipagens"} ELSE {}) \cup {"historico"},
                        (IF okBip THEN {} ELSE {"bipagens"})
                            \cup (IF okHist THEN {} ELSE {"historico"}))
                  /\ UNCHANGED <<itens, indexPatrimonio, indexPorCoordenacao,
                                 listaLocalizados, listaPendentes, listaBipados>>

(***************************************************************************)
(* App.processarLote: a batch of identifiers                               *)
(***************************************************************************)
Separadores == {",", ";", "\t", "\n", "\r"}

\* texto.split(/[,;\t\n\r]+/) read from position i, atual being the piece
\* under construction
RECURSIVE split(_, _, _)
split(texto, i, atual) ==
    IF i > Len(texto) THEN <<atual>>
    ELSE IF texto[i] \in Separadores
         THEN IF i > 1 /\ texto[i - 1] \in Separadores
              THEN split(texto, i + 1, atual)
              ELSE <<atual>> \o split(texto, i + 1, <<>>)
         ELSE split(texto, i + 1, Append(atual, texto[i]))

\* .map(p => p.trim()).filter(p => p.length > 0)
Patrimonios(texto) ==
    LET pedacos == split(texto, 1, <<>>)
        aparados == [i \in DOMAIN pedacos |-> trim(pedacos[i])]
        naoVazio(p) == Len(p) > 0
    IN  SelectSeq(aparados, naoVazio)

\* a faulty deduplication that keeps every occurrence
Unicos_semDedup(s) == s

\* [...new Set(patrimonios)]: the first occurrence of each value, in order
RECURSIVE Unicos(_)
Unicos(s) ==
    IF s = <<>> THEN <<>>
    ELSE LET f == Unicos(Frente(s))
         IN  IF Ultimo(s) \in Imagem(f) THEN f ELSE Append(f, Ultimo(s))

\* the loop of processarLote from the i-th identifier on.  The i-th call
\* reads the clock at relogio + 1 + passo * i; the writes of the identifiers
\* after the limite-th fail.
RECURSIVE LoteDesde(_, _, _, _, _)
LoteDesde(unicos, i, acc, passo, limite) ==
    IF i > Len(unicos) THEN acc
    ELSE LET patrimonio == unicos[i]
             ok == i <= limite
             r == registrarBipagem(acc.bip, patrimonio, relogio + 1 + passo * i)
             hist == adicionarHistorico(acc.hist, r.res)
         IN  IF ~validarPatrimonio(patrimonio)
             THEN LoteDesde(unicos, i + 1,
                    [acc EXCEPT !.naoEncontrado = Append(@, patrimonio)], passo, limite)
             ELSE IF r.res.status = "sucesso"
             THEN LoteDesde(unicos, i + 1,
                    [acc EXCEPT !.bip = r.bip,
                                !.hist = hist,
                                !.armBip = salvar(@, r.bip, ok),
                                !.armHist = salvarHistorico(@, hist, ok),
                                !.sucesso = Append(@, patrimonio),
                                !.escritas = @ \cup {"bipagens", "historico"},
                                !.falhas = @ \cup (IF ok THEN {} ELSE {"bipagens", "historico"})],
                    passo, limite)
             ELSE IF r.res.status = "ja_bipado"
             THEN LoteDesde(unicos, i + 1,
                    [acc EXCEPT !.jaBipado = Append(@, patrimonio)], passo, limite)
             ELSE LoteDesde(unicos, i + 1,
                    [acc EXCEPT !.naoEncontrado = Append(@, patrimonio)], passo, limite)

ProcessarLote(texto) ==
    /\ LET unicos == Unicos(Patrimonios(trim(texto)))
       IN  IF trim(texto) = <<>> \/ unicos = <<>>
           THEN /\ ultimo' = Registro("lote_vazio", texto, <<>>, SemResultado, SemLote, {}, {})
                /\ UNCHANGED <<itens, bipagens, historico, indexPatrimonio,
                               indexPorCoordenacao, listaLocalizados, listaPendentes,
                               listaBipados, estatisticas, armazenado, relogio, nFalhas>>
           ELSE \E passo \in {0, 1}, limite \in 0..Len(unicos) :
                  LET fim == LoteDesde(unicos, 1,
                               [bip |-> bipagens, hist |-> historico,
                                armBip |-> armazenado.bipagens,
                                armHist |-> armazenado.historico,
                                sucesso |-> <<>>, jaBipado |-> <<>>,
                                naoEncontrado |-> <<>>, escritas |-> {}, falhas |-> {}],
                               passo, limite)
                  IN  /\ Falhar(fim.falhas)
                      /\ relogio' = relogio + 1 + passo * Len(unicos)
                      /\ bipagens' = fim.bip
                      /\ historico' = fim.hist
                      /\ armazenado' = [armazenado EXCEPT !.bipagens = fim.armBip,
                                                          !.historico = fim.armHist]
                      /\ estatisticas' = EstatisticasDe(itens, listaLocalizados,
                                                        listaPendentes, fim.bip)
                      /\ ultimo' = Registro("lote", texto, <<>>, SemResultado,
                            [sucesso |-> fim.sucesso, jaBipado |-> fim.jaBipado,
                             naoEncontrado |-> fim.naoEncontrado],
                            fim.escritas, fim.falhas)
                      /\ UNCHANGED <<itens, indexPatrimonio, indexPorCoordenacao,
                                     listaLocalizados, listaPendentes, listaBipados>>

(***************************************************************************)
(* App._processarUpload: a CSV file is imported                            *)
(***************************************************************************)
\* Inventario.importar: the collection it stores
importar(novosItens) == [i \in DOMAIN novosItens |-> sanitizarObjeto(novosItens[i])]

\* a faulty summary read from the statistics before the indices are rebuilt
importarRetorno_antesDeReconstruir(its) ==
    [total       |-> Len(its),
     localizados |-> estatisticas.localizados,
     pendentes   |-> estatisticas.pendentes]

\* Inventario.importar: the summary it returns once the collection its is
\* stored and the indices are rebuilt
importarRetorno(its) ==
    [total       |-> Len(its),
     localizados |-> EstatisticasDe(its, ListaLocalizadosDe(its),
                                    ListaPendentesDe(its), bipagens).localizados,
     pendentes   |-> EstatisticasDe(its, ListaLocalizadosDe(its),
                                    ListaPendentesDe(its), bipagens).pendentes]

\* a faulty handler that calls Inventario.importar before it looks at the
\* number of rows
ProcessarUpload_importaAntes(dados) ==
    /\ itens' = importar(dados)
    /\ armazenado' = [armazenado EXCEPT !.inventario = Presente(importar(dados))]
    /\ reconstruirIndices(importar(dados), bipagens)
    /\ ultimo' = IF Len(dados) = 0
                 THEN Registro("upload_rejeitado", <<>>, dados, SemResultado, SemLote, {}, {})
                 ELSE [Registro("importar", <<>>, dados, SemResultado, SemLote,
                                {"inventario"}, {})
                          EXCEPT !.resumo = importarRetorno(importar(dados))]
    /\ UNCHANGED <<bipagens, historico, relogio, nFalhas>>

\* a faulty handler that gives the import up when the write of the
\* collection is refused
ProcessarUpload_soSeSalvou(dados) ==
    /\ IF Len(dados) = 0
       THEN /\ ultimo' = Registro("upload_rejeitado", <<>>, dados, SemResultado, SemLote, {}, {})
            /\ UNCHANGED <<itens, bipagens, historico, indexPatrimonio, indexPorCoordenacao,
                           listaLocalizados, listaPendentes, listaBipados, estatisticas,
                           armazenado, relogio, nFalhas>>
       ELSE \E ok \in BOOLEAN :
              /\ Falhar(IF ok THEN {} ELSE {"inventario"})
              /\ itens' = IF ok THEN importar(dados) ELSE itens
              /\ armazenado' = [armazenado EXCEPT !.inventario = salvar(@, importar(dados), ok)]
              /\ reconstruirIndices(IF ok THEN importar(dados) ELSE itens, bipagens)
              /\ ultimo' = [Registro("importar", <<>>, dados, SemResultado, SemLote,
                                     {"inventario"}, IF ok THEN {} ELSE {"inventario"})
                               EXCEPT !.resumo = importarRetorno(importar(dados))]
              /\ UNCHANGED <<bipagens, historico, relogio>>

\* dados is what CSV.processarArquivo resolved to; an empty one is rejected
\* before Inventario.importar is reached
ProcessarUpload(dados) ==
    /\ IF Len(dados) = 0
       THEN /\ ultimo' = Registro("upload_rejeitado", <<>>, dados, SemResultado, SemLote, {}, {})
            /\ UNCHANGED <<itens, bipagens, historico, indexPatrimonio, indexPorCoordenacao,
                           listaLocalizados, listaPendentes, listaBipados, estatisticas,
                           armazenado, relogio, nFalhas>>
       ELSE \E ok \in BOOLEAN :
              /\ Falhar(IF ok THEN {} ELSE {"inventario"})
              /\ itens' = importar(dados)
              /\ armazenado' = [armazenado EXCEPT !.inventario = salvar(@, importar(dados), ok)]
              /\ reconstruirIndices(importar(dados), bipagens)
              /\ ultimo' = [Registro("importar", <<>>, dados, SemResultado, SemLote,
                                     {"inventario"}, IF ok THEN {} ELSE {"inventario"})
                               EXCEPT !.resumo = importarRetorno(importar(dados))]
              /\ UNCHANGED <<bipagens, historico, relogio>>

\* novosItens.map(item => Utils.sanitizarObjeto(item)) throws when novosItens
\* has no method map or when Object.entries is applied to null
importarLanca(carga) ==
    \/ ~carga.sequencia
    \/ \E i \in DOMAIN carga.registros : carga.registros[i] = SemItem

\* Inventario.importar called with carga.  The map is evaluated before _itens
\* is assigned, so an exception leaves the assignment and what follows it
\* undone; otherwise the import goes on as in the upload.
ImportarDireto(carga) ==
    IF importarLanca(carga)
    THEN /\ ultimo' = Registro("importar_lancou", <<>>, carga.registros, SemResultado,
                               SemLote, {}, {})
         /\ UNCHANGED <<itens, bipagens, historico, indexPatrimonio, indexPorCoordenacao,
                        listaLocalizados, listaPendentes, listaBipados, estatisticas,
                        armazenado, relogio, nFalhas>>
    ELSE \E ok \in BOOLEAN :
           /\ Falhar(IF ok THEN {} ELSE {"inventario"})
           /\ itens' = importar(carga.registros)
           /\ armazenado' = [armazenado EXCEPT
                                !.inventario = salvar(@, importar(carga.registros), ok)]
           /\ reconstruirIndices(importar(carga.registros), bipagens)
           /\ ultimo' = [Registro("importar", <<>>, carga.registros, SemResultado, SemLote,
                                  {"inventario"}, IF ok THEN {} ELSE {"inventario"})
                            EXCEPT !.resumo = importarRetorno(importar(carga.registros))]
           /\ UNCHANGED <<bipagens, historico, relogio>>

(***************************************************************************)
(* App._importarBackup: a backup file is restored                          *)
(***************************************************************************)
\* Storage.importarBackup: whether it reports success.  A part is refused
\* only when it is truthy and of another type
BackupAceito(backup) ==
    /\ backup.objeto
    /\ backup.temDados
    /\ backup.tipos.inventario # "outro"
    /\ backup.tipos.bipagens # "outro"
    /\ backup.tipos.historico # "outro"

\* inventario || [], bipagens || {}, historico || []
ParteOuPadrao(backup, parte, padrao) ==
    IF backup.tipos[parte] = "certo" THEN backup[parte] ELSE padrao

\* Storage.salvarTudo with the three values of the backup; each write may fail
salvarTudo(backup, okInv, okBip, okHist) ==
    [inventario |-> salvar(armazenado.inventario,
                           ParteOuPadrao(backup, "inventario", <<>>), okInv),
     bipagens   |-> salvar(armazenado.bipagens,
                           ParteOuPadrao(backup, "bipagens", SemBipagens), okBip),
     historico  |-> salvar(armazenado.historico,
                           ParteOuPadrao(backup, "historico", <<>>), okHist)]

\* Storage.exportarBackup: the three values as carregarTudo loads them
exportarBackup ==
    Backup(carregar(armazenado.inventario, <<>>),
           carregar(armazenado.bipagens, SemBipagens),
           carregar(armazenado.historico, <<>>))

ImportarBackup(backup) ==
    /\ IF ~BackupAceito(backup)
       THEN /\ ultimo' = Registro("backup_rejeitado", <<>>, <<>>, SemResultado, SemLote, {}, {})
            /\ UNCHANGED <<itens, bipagens, historico, indexPatrimonio, indexPorCoordenacao,
                           listaLocalizados, listaPendentes, listaBipados, estatisticas,
                           armazenado, relogio, nFalhas>>
       ELSE \E okInv \in BOOLEAN, okBip \in BOOLEAN, okHist \in BOOLEAN :
              /\ Falhar((IF okInv THEN {} ELSE {"inventario"})
                          \cup (IF okBip THEN {} ELSE {"bipagens"})
                          \cup (IF okHist THEN {} ELSE {"historico"}))
              /\ armazenado' = salvarTudo(backup, okInv, okBip, okHist)
              /\ inicializar(salvarTudo(backup, okInv, okBip, okHist))
              /\ ultimo' = Registro("importarBackup", <<>>,
                                    ParteOuPadrao(backup, "inventario", <<>>), SemResultado,
                                    SemLote, {"inventario", "bipagens", "historico"},
                                    (IF okInv THEN {} ELSE {"inventario"})
                                    \cup (IF okBip THEN {} ELSE {"bipagens"})
                                    \cup (IF okHist THEN {} ELSE {"historico"}))
              /\ UNCHANGED <<relogio>>

(***************************************************************************)
(* App.limparBipagens and App.limparTudo, once the user has confirmed      *)
(***************************************************************************)
\* a faulty limparBipagens that leaves the history log as it is
LimparBipagens_mantemHistorico ==
    /\ estatisticas.bipados # 0
    /\ bipagens' = SemBipagens
    /\ armazenado' = [armazenado EXCEPT !.bipagens = AusenteBipagens]
    /\ estatisticas' = EstatisticasDe(itens, listaLocalizados, listaPendentes, SemBipagens)
    /\ ultimo' = Registro("limparBipagens", <<>>, <<>>, SemResultado, SemLote, {}, {})
    /\ UNCHANGED <<itens, historico, indexPatrimonio, indexPorCoordenacao,
                   listaLocalizados, listaPendentes, listaBipados, relogio, nFalhas>>

\* App.limparBipagens: nothing is done when the statistics count no mark;
\* Inventario.limparBipagens, Storage.limparBipagens remove the two keys
LimparBipagens ==
    /\ estatisticas.bipados # 0
    /\ bipagens' = SemBipagens
    /\ historico' = <<>>
    /\ armazenado' = [armazenado EXCEPT !.bipagens = AusenteBipagens,
                                        !.historico = AusenteHistorico]
    /\ estatisticas' = EstatisticasDe(itens, listaLocalizados, listaPendentes, SemBipagens)
    /\ ultimo' = Registro("limparBipagens", <<>>, <<>>, SemResultado, SemLote, {}, {})
    /\ UNCHANGED <<itens, indexPatrimonio, indexPorCoordenacao, listaLocalizados,
                   listaPendentes, listaBipados, relogio, nFalhas>>

LimparTudo ==
    /\ itens' = <<>>
    /\ bipagens' = SemBipagens
    /\ historico' = <<>>
    /\ indexPatrimonio' = IndexPatrimonioDe(<<>>)
    /\ indexPorCoordenacao' = IndexPorCoordenacaoDe(<<>>)
    /\ listaLocalizados' = <<>>
    /\ listaPendentes' = <<>>
    /\ listaBipados' = <<>>
    /\ armazenado' = ArmazenamentoVazio
    /\ estatisticas' = EstatisticasDe(<<>>, <<>>, <<>>, SemBipagens)
    /\ ultimo' = Registro("limparTudo", <<>>, <<>>, SemResultado, SemLote, {}, {})
    /\ UNCHANGED <<relogio, nFalhas>>

(***************************************************************************)
(* UI.renderizarBipados: the registered tab is shown                       *)
(***************************************************************************)
\* a faulty obterBipados that keeps the filtered array as the collection
RenderizarBipados_filtraItens ==
    /\ listaBipados' \in ListasBipadosDe(itens, bipagens)
    /\ itens' = listaBipados'
    /\ ultimo' = Registro("obterBipados", <<>>, <<>>, SemResultado, SemLote, {}, {})
    /\ UNCHANGED <<bipagens, historico, indexPatrimonio, indexPorCoordenacao,
                   listaLocalizados, listaPendentes, estatisticas, armazenado,
                   relogio, nFalhas>>

\* Inventario.obterBipados without a search term recomputes _listaBipados
RenderizarBipados ==
    /\ listaBipados' \in ListasBipadosDe(itens, bipagens)
    /\ ultimo' = Registro("obterBipados", <<>>, <<>>, SemResultado, SemLote, {}, {})
    /\ UNCHANGED <<itens, bipagens, historico, indexPatrimonio, indexPorCoordenacao,
                   listaLocalizados, listaPendentes, estatisticas, armazenado,
                   relogio, nFalhas>>

\* UI.atualizarEstatisticas: Inventario.obterEstatisticas recomputes the cache
\* and returns a copy of it
AtualizarEstatisticas ==
    /\ estatisticas' = obterEstatisticas
    /\ ultimo' = Registro("obterEstatisticas", <<>>, <<>>, SemResultado, SemLote, {}, {})
    /\ UNCHANGED <<itens, bipagens, historico, indexPatrimonio, indexPorCoordenacao,
                   listaLocalizados, listaPendentes, listaBipados, armazenado,
                   relogio, nFalhas>>

\* search terms typed in the tabs and groups chosen in the selector
Buscas == {Vazio, PA, <<"B">>, PZ}
Coordenacoes == {<<"K">>, <<" ", "K", " ">>, <<"k">>, Vazio, Ausente}

(***************************************************************************)
(* UI.renderizarHistorico, onclick of an entry: an observation is saved    *)
(***************************************************************************)
\* the reasons the dialog offers (one of them)
Motivos == {<<"B", "e", "m", " ", "a", "v", "a", "r", "i", "a", "d", "o">>}

\* the observation of an asset as the registered list and the dialog read it:
\* (bip[patrimonio] || {}).observacao || ''.  A mark is a string (an instant)
\* and an inherited property is a function: neither has a property
\* observacao, and an absent mark gives {}
observacaoDe(bip, patrimonio) ==
    IF TemBipagem(bip, patrimonio) THEN <<>> ELSE <<>>

\* a faulty handler that stores the observation by registering the asset anew
SalvarObservacao_regrava(i, obs) ==
    /\ i \in DOMAIN obterHistorico(10)
    /\ bipagens' = GravarBipagem(bipagens, obterHistorico(10)[i].patrimonio, relogio + 1)
    /\ relogio' = relogio + 1
    /\ ultimo' = Registro("observacao", obterHistorico(10)[i].patrimonio, obs,
                          obterHistorico(10)[i], SemLote, {}, {})
    /\ UNCHANGED <<itens, historico, indexPatrimonio, indexPorCoordenacao,
                   listaLocalizados, listaPendentes, listaBipados, estatisticas,
                   armazenado, nFalhas>>

\* The i-th of the ten entries shown is clicked and the dialog resolves to the
\* reason obs.  The handler then calls Inventario.atualizarObservacao, which the
\* Inventario object does not have: the call throws and the rest of the
\* handler (item.observacao = obs, adicionarHistorico) is not run.
SalvarObservacao(i, obs) ==
    /\ i \in DOMAIN obterHistorico(10)
    /\ ultimo' = Registro("observacao", obterHistorico(10)[i].patrimonio, obs,
                          obterHistorico(10)[i], SemLote, {}, {})
    /\ UNCHANGED <<itens, bipagens, historico, indexPatrimonio, indexPorCoordenacao,
                   listaLocalizados, listaPendentes, listaBipados, estatisticas,
                   armazenado, relogio, nFalhas>>

(***************************************************************************)
(* Specification                                                           *)
(***************************************************************************)
Next ==
    \/ \E p \in Leituras : Passo(MaxPassos) /\ ProcessarLeitura(p)
    \/ \E t \in Lotes : Passo(MaxPassos) /\ ProcessarLote(t)
    \/ \E d \in Inventarios \cup {parse(a) : a \in Arquivos} :
          Passo(MaxPassos) /\ ProcessarUpload(d)
    \/ \E c \in Cargas : Passo(MaxPassos) /\ ImportarDireto(c)
    \/ \E b \in Backups \cup {exportarBackup} : Passo(MaxPassos) /\ ImportarBackup(b)
    \/ Passo(MaxPassos) /\ LimparBipagens
    \/ Passo(MaxPassos) /\ LimparTudo
    \/ Passo(MaxPassos) /\ Recarregar
    \/ Passo(MaxPassos) /\ RenderizarBipados
    \/ Passo(MaxPassos) /\ AtualizarEstatisticas
    \/ \E i \in 1..2, obs \in Motivos : Passo(MaxPassos) /\ SalvarObservacao(i, obs)

Spec == Init /\ [][Next]_vars

(***************************************************************************)
(* The history scenario: a backup with a collection larger than the log is *)
(* restored, then its assets are scanned one after the other.  localStorage *)
(* accepts every write.                                                    *)
(***************************************************************************)
NGrande == MAX_HISTORICO + ExtraIds

IdGrande(i) == <<"p", Digitos[(i \div 10) + 1], Digitos[(i % 10) + 1]>>

InvGrande == [i \in 1..NGrande |-> Item(IdGrande(i), <<"F">>, <<"K">>)]

BackupsGrandes ==
    {Backup(InvGrande, bip, HistoricoAntigo(n)) :
        bip \in {SemBipagens, (IdGrande(1) :> 1)},
        n \in {0, MAX_HISTORICO - 1, MAX_HISTORICO, MAX_HISTORICO + 1}}

InitHist ==
    /\ itens = <<>>
    /\ bipagens = SemBipagens
    /\ historico = <<>>
    /\ indexPatrimonio = IndexPatrimonioDe(<<>>)
    /\ indexPorCoordenacao = IndexPorCoordenacaoDe(<<>>)
    /\ listaLocalizados = <<>>
    /\ listaPendentes = <<>>
    /\ listaBipados = <<>>
    /\ estatisticas = EstatisticasDe(<<>>, <<>>, <<>>, SemBipagens)
    /\ armazenado = ArmazenamentoVazio
    /\ relogio = 1
    /\ CameraInicial
    /\ nPassos = 0
    /\ nFalhas = MaxFalhas
    /\ ultimo = Registro("inicializar", <<>>, <<>>, SemResultado, SemLote, {}, {})

RestaurarGrande ==
    /\ nPassos = 0
    /\ \E b \in BackupsGrandes : ImportarBackup(b)

\* the nPassos-th asset of the collection is scanned, as printed or in capitals
LeituraSeguinte ==
    /\ nPassos > 0
    /\ \E p \in {IdGrande(nPassos), toUpperCase(IdGrande(nPassos))} : ProcessarLeitura(p)

NextHist ==
    \/ Passo(NGrande + 1) /\ RestaurarGrande
    \/ Passo(NGrande + 1) /\ LeituraSeguinte

SpecHist == InitHist /\ [][NextHist]_vars

(***************************************************************************)
(* Camera: iniciar, the answer of Quagga.init, a detection, parar.  The     *)
(* callback handed to iniciar is App._processarLeitura.                     *)
(***************************************************************************)
\* the codes the decoder reports; the empty one is a result without a code
CodigosCamera == {PA, PB, Vazio}

\* milliseconds between two events of the camera
Intervalos == {1, JANELA_MS, JANELA_MS + 1}

\* one more operation of the camera, up to MaxPassosCamera in a behaviour
PassoCamera ==
    /\ nPassos < MaxPassosCamera
    /\ nPassos' = nPassos + 1

\* no scan is processed
SemLeitura ==
    UNCHANGED <<itens, bipagens, historico, indexPatrimonio, indexPorCoordenacao,
                listaLocalizados, listaPendentes, listaBipados, estatisticas,
                armazenado, relogio, nFalhas, ultimo>>

\* Camera.iniciar(callback); suportado: Quagga is loaded and the browser has
\* getUserMedia, so that Quagga.init is called and answers later
iniciar(suportado) ==
    /\ camera' = [camera EXCEPT !.onCodigoLido = TRUE]
    /\ ambiente' = IF suportado THEN [ambiente EXCEPT !.pendentes = @ + 1]
                                ELSE ambiente
    /\ observado' = [observado EXCEPT !.op = "iniciar", !.parado = FALSE]
    /\ SemLeitura

\* Camera._onQuaggaInit(err): the answer to one Quagga.init
onQuaggaInit(err) ==
    /\ ambiente.pendentes > 0
    /\ IF err
       THEN /\ camera' = camera
            /\ ambiente' = [ambiente EXCEPT !.pendentes = @ - 1]
       ELSE /\ camera' = [camera EXCEPT !.ativa = TRUE]
            /\ ambiente' = [ambiente EXCEPT !.pendentes = @ - 1,
                                            !.iniciado = TRUE,
                                            !.ouvindo = TRUE]
    /\ observado' = [observado EXCEPT !.op = "init"]
    /\ SemLeitura

\* Camera._onDeteccao(result): the started decoder reports codigo to the
\* subscribed handler, dt milliseconds after the last event
onDeteccao(codigo, dt) ==
    /\ ambiente.iniciado
    /\ ambiente.ouvindo
    /\ LET agora == ambiente.instante + dt
           aceita == /\ codigo # Vazio
                     /\ \/ codigo # camera.ultimoCodigo
                        \/ agora - camera.ultimaLeitura > JANELA_MS
           entregue == aceita /\ camera.onCodigoLido
       IN  /\ ambiente' = [ambiente EXCEPT !.instante = agora]
           /\ camera' =
                 IF aceita
                 THEN [camera EXCEPT !.deteccaoCount = @ + 1,
                                     !.ultimoCodigo = codigo,
                                     !.ultimaLeitura = agora]
                 ELSE [camera EXCEPT !.deteccaoCount = @ + 1]
           /\ observado' =
                 [observado EXCEPT
                    !.op = "deteccao",
                    !.codigo = codigo,
                    !.instante = agora,
                    !.entregue = entregue,
                    !.ultimaEntrega = IF entregue THEN codigo ELSE @,
                    !.instanteUltimaEntrega = IF entregue THEN agora ELSE @,
                    !.entregas = IF entregue THEN (codigo :> agora) @@ @ ELSE @]
           /\ IF entregue THEN ProcessarLeitura(codigo) ELSE SemLeitura

\* Camera.parar()
parar ==
    /\ camera' = [camera EXCEPT !.ativa = FALSE,
                                !.ultimoCodigo = <<>>,
                                !.ultimaLeitura = 0,
                                !.deteccaoCount = 0]
    /\ ambiente' = IF camera.ativa
                   THEN [ambiente EXCEPT !.iniciado = FALSE, !.ouvindo = FALSE]
                   ELSE ambiente
    /\ observado' = [observado EXCEPT !.op = "parar", !.parado = TRUE]
    /\ SemLeitura

NextCamera ==
    \/ \E suportado \in BOOLEAN : PassoCamera /\ iniciar(suportado)
    \/ \E err \in BOOLEAN : PassoCamera /\ onQuaggaInit(err)
    \/ \E c \in CodigosCamera, dt \in Intervalos : PassoCamera /\ onDeteccao(c, dt)
    \/ PassoCamera /\ parar

SpecCamera == Init /\ [][NextCamera]_vars

(***************************************************************************)
(* Properties of the scan registration                                     *)
(***************************************************************************)
\* C1: for every asset of the collection without a registration mark and any
\* two scan strings that both normalize (trim, upper case) to the asset's key,
\* two calls of registrarBipagem in sequence return 'sucesso' then
\* 'ja_bipado', the second result carries as data_bipagem the instant the
\* first call stored, and the second call leaves the marks as the first left
\* them.
C1_RegistrarDuasVezes ==
    \A i \in DOMAIN itens : \A p1 \in Leituras, p2 \in Leituras :
        (/\ itens[i].patrimonio \notin DOMAIN bipagens
         /\ toUpperCase(trim(p1)) = patrimonioUpper(itens[i])
         /\ toUpperCase(trim(p2)) = patrimonioUpper(itens[i]))
        => LET r1 == registrarBipagem(bipagens, p1, relogio + 1)
               r2 == registrarBipagem(r1.bip, p2, relogio + 2)
           IN  /\ r1.res.status = "sucesso"
               /\ r2.res.status = "ja_bipado"
               /\ r2.res.data_bipagem = relogio + 1
               /\ r2.bip = r1.bip

\* C2: a scan returns exactly one of the three outcomes: 'nao_encontrado' iff
\* the lookup of the scanned string finds no asset, 'sucesso' iff the asset
\* found had no mark before the call (and its assetId has a mark after it),
\* 'ja_bipado' iff the asset found had a mark before the call.
C2_TabelaDeLeitura ==
    [][ultimo'.op = "leitura" =>
          LET item == buscarPorPatrimonio(ultimo'.arg)
              st == ultimo'.res.status
          IN  /\ st \in {"nao_encontrado", "sucesso", "ja_bipado"}
              /\ (st = "nao_encontrado") <=> (item = SemItem)
              /\ (st = "sucesso") <=>
                    (item # SemItem /\ item.patrimonio \notin DOMAIN bipagens)
              /\ (st = "sucesso") => item.patrimonio \in DOMAIN bipagens'
              /\ (st = "ja_bipado") <=>
                    (item # SemItem /\ item.patrimonio \in DOMAIN bipagens)
      ]_vars

\* C3, as stated: a mark that exists keeps its assetId and its instant across
\* every handler that is not a bulk clear (limparBipagens, limparTudo).
C3_MarcaImutavelAteLimpeza ==
    [][ultimo'.op \notin {"limparBipagens", "limparTudo"} =>
          \A k \in DOMAIN bipagens :
              k \in DOMAIN bipagens' /\ bipagens'[k] = bipagens[k]
      ]_vars

\* C3, amended: a mark that exists keeps its assetId and its instant across
\* every scan, batch, import, query and observation handler; only a bulk
\* clear, or an initialization from localStorage (a page load or a backup
\* restore), which replaces the marks by the persisted ones, removes or
\* changes it.
C3_MarcaImutavel ==
    [][ultimo'.op \notin {"limparBipagens", "limparTudo", "inicializar", "importarBackup"} =>
          \A k \in DOMAIN bipagens :
              k \in DOMAIN bipagens' /\ bipagens'[k] = bipagens[k]
      ]_vars

\* a scan has registered an asset while another asset already had its mark
C3_Witness ==
    /\ ultimo.op = "leitura"
    /\ ultimo.res.status = "sucesso"
    /\ \E k \in DOMAIN bipagens : k # ultimo.res.patrimonio /\ bipagens[k] < ultimo.res.timestamp

\* C4: a scan that returns 'nao_encontrado' or 'ja_bipado' leaves the
\* collection, the marks, the two indices, the located and pending lists and
\* the persisted marks as they were and does not write the marks; the marks
\* are written only when an asset was registered ('sucesso'), in a single scan
\* and in a batch.
C4_LeituraSemEfeito ==
    [][/\ (ultimo'.op = "leitura" /\ ultimo'.res.status \in {"nao_encontrado", "ja_bipado"})
          => /\ itens' = itens
             /\ bipagens' = bipagens
             /\ indexPatrimonio' = indexPatrimonio
             /\ indexPorCoordenacao' = indexPorCoordenacao
             /\ listaLocalizados' = listaLocalizados
             /\ listaPendentes' = listaPendentes
             /\ armazenado'.bipagens = armazenado.bipagens
             /\ "bipagens" \notin ultimo'.escritas
       /\ (ultimo'.op = "leitura" /\ "bipagens" \in ultimo'.escritas)
          => ultimo'.res.status = "sucesso"
       /\ (ultimo'.op = "lote" /\ ultimo'.lote.sucesso = <<>>)
          => /\ itens' = itens
             /\ bipagens' = bipagens
             /\ indexPatrimonio' = indexPatrimonio
             /\ indexPorCoordenacao' = indexPorCoordenacao
             /\ listaLocalizados' = listaLocalizados
             /\ listaPendentes' = listaPendentes
             /\ armazenado'.bipagens = armazenado.bipagens
             /\ "bipagens" \notin ultimo'.escritas
      ]_vars

\* an asset that has its mark was scanned again
C4_Witness ==
    /\ ultimo.op = "leitura"
    /\ ultimo.res.status = "ja_bipado"
    /\ ultimo.res.patrimonio \in DOMAIN bipagens
    /\ armazenado.bipagens.presente

\* C5: whenever a scan reports 'sucesso', the marks persisted in localStorage
\* (what the next initialization loads) hold the new mark.
C5_SucessoDuravel ==
    (ultimo.op = "leitura" /\ ultimo.res.status = "sucesso")
    => /\ armazenado.bipagens.presente
       /\ ultimo.res.patrimonio \in DOMAIN armazenado.bipagens.valor
       /\ armazenado.bipagens.valor[ultimo.res.patrimonio] = ultimo.res.timestamp

(***************************************************************************)
(* Properties of the indices                                               *)
(***************************************************************************)
\* C6: every asset of the collection is in exactly one of the located and
\* pending lists, as many times as it is in the collection; it is in the
\* located list iff its uorg_destino is present and has a character that is
\* not white space; the two lists together are as long as the collection,
\* also when assetIds repeat.
C6_ParticaoCompleta ==
    LET Vezes(s, x) == Cardinality({i \in DOMAIN s : s[i] = x})
        Preenchida(x) ==
            /\ x.uorg_destino # Ausente
            /\ \E i \in DOMAIN x.uorg_destino : x.uorg_destino[i] \notin Espacos
    IN  /\ Len(listaLocalizados) + Len(listaPendentes) = Len(itens)
        /\ \A i \in DOMAIN itens :
              LET x == itens[i]
              IN  /\ Vezes(listaLocalizados, x) + Vezes(listaPendentes, x) = Vezes(itens, x)
                  /\ Vezes(listaLocalizados, x) = 0 \/ Vezes(listaPendentes, x) = 0
                  /\ Preenchida(x) <=> Vezes(listaLocalizados, x) > 0

\* C7: the lookup finds an asset for the assetId of every asset of the
\* collection, as stored, in capitals and between blanks, and finds none for
\* a string whose normal form (trim, upper case) is that of no assetId of the
\* collection.
C7_BuscaConsistente ==
    /\ \A i \in DOMAIN itens :
          LET id == itens[i].patrimonio
          IN  \A v \in {id, toUpperCase(id), <<" ">> \o id \o <<" ">>} :
                 buscarPorPatrimonio(v) # SemItem
    /\ \A p \in Leituras :
          (\A i \in DOMAIN itens :
              toUpperCase(trim(p)) # toUpperCase(trim(itens[i].patrimonio)))
          => buscarPorPatrimonio(p) = SemItem

(***************************************************************************)
(* Properties of the history log                                           *)
(***************************************************************************)
\* C8: the log never has more than MAX_HISTORICO entries, and a scan puts its
\* entry at the front of the log, dropping the last entry when the log was
\* full and keeping the others in their order.
C8_HistoricoLimitado ==
    [][/\ Len(historico') <= MAX_HISTORICO
       /\ (ultimo'.op = "leitura") =>
             historico' = <<ultimo'.res>> \o
                 (IF Len(historico) >= MAX_HISTORICO THEN Frente(historico) ELSE historico)
      ]_vars

\* C9: after more than MAX_HISTORICO scans of as many distinct assets of the
\* collection, obterHistorico(1000) has exactly MAX_HISTORICO entries, those of
\* the MAX_HISTORICO latest scans, the latest first.
C9_RecentesAposMuitas ==
    (ultimo.op = "leitura" /\ nPassos - 1 > MAX_HISTORICO)
    => /\ Len(obterHistorico(1000)) = MAX_HISTORICO
       /\ \A k \in 1..MAX_HISTORICO :
             /\ k \in DOMAIN historico
             /\ obterHistorico(1000)[k].patrimonio = IdGrande(nPassos - k)
             /\ obterHistorico(1000)[k].timestamp = relogio - (k - 1)

\* C10, as stated: every attempt adds one entry to the log, in a single scan
\* and in a batch, whatever its outcome.
C10_UmaEntradaPorTentativa ==
    [][LET n == IF ultimo'.op = "leitura" THEN 1
                ELSE Len(ultimo'.lote.sucesso) + Len(ultimo'.lote.jaBipado)
                        + Len(ultimo'.lote.naoEncontrado)
           total == IF Len(historico) + n > MAX_HISTORICO THEN MAX_HISTORICO
                    ELSE Len(historico) + n
       IN  ultimo'.op \in {"leitura", "lote"} =>
              /\ Len(historico') = total
              /\ \A k \in (n + 1)..total : historico'[k] = historico[k - n]
      ]_vars

\* C10, amended: a single scan adds one entry, its result, at the front of the
\* log whatever the outcome, so k scans of one asset add k entries; a batch
\* adds one entry for each asset it registered and none for an identifier
\* that was already registered or not found.
C10_EntradasPorCaminho ==
    [][LET n == IF ultimo'.op = "leitura" THEN 1 ELSE Len(ultimo'.lote.sucesso)
           total == IF Len(historico) + n > MAX_HISTORICO THEN MAX_HISTORICO
                    ELSE Len(historico) + n
       IN  ultimo'.op \in {"leitura", "lote"} =>
              /\ Len(historico') = total
              /\ \A k \in (n + 1)..total : historico'[k] = historico[k - n]
              /\ \A k \in 1..n : k <= total =>
                    IF ultimo'.op = "leitura" THEN historico'[k] = ultimo'.res
                    ELSE historico'[k].status = "sucesso"
      ]_vars

\* a batch has registered an asset and met one already registered, and the
\* log holds the entry of an earlier scan of the asset just registered
C10_Witness ==
    /\ ultimo.op = "lote"
    /\ ultimo.lote.sucesso # <<>>
    /\ ultimo.lote.jaBipado # <<>>
    /\ Len(historico) >= 2
    /\ historico[1].status = "sucesso"

(***************************************************************************)
(* Properties of the batch                                                 *)
(***************************************************************************)
\* C11: a batch attempts each distinct trimmed non-empty identifier of its
\* text once: the identifier is in exactly one of the three outcome lists,
\* once; the lists hold nothing else; their lengths add up to the number of
\* distinct identifiers; each list follows the order of first occurrence.
C11_LoteDeterminado ==
    (ultimo.op = "lote") =>
        LET pats == Patrimonios(trim(ultimo.arg))
            ids == {pats[i] : i \in DOMAIN pats}
            todos == ultimo.lote.sucesso \o ultimo.lote.jaBipado \o ultimo.lote.naoEncontrado
            Primeira(x) == CHOOSE i \in DOMAIN pats :
                              pats[i] = x /\ \A j \in DOMAIN pats : pats[j] = x => i <= j
            EmOrdem(l) == \A i \in DOMAIN l, j \in DOMAIN l :
                              i < j => Primeira(l[i]) < Primeira(l[j])
        IN  /\ \A x \in ids : Cardinality({i \in DOMAIN todos : todos[i] = x}) = 1
            /\ \A i \in DOMAIN todos : todos[i] \in ids
            /\ Len(ultimo.lote.sucesso) + Len(ultimo.lote.jaBipado)
                  + Len(ultimo.lote.naoEncontrado) = Cardinality(ids)
            /\ EmOrdem(ultimo.lote.sucesso)
            /\ EmOrdem(ultimo.lote.jaBipado)
            /\ EmOrdem(ultimo.lote.naoEncontrado)

\* a batch whose text repeats an identifier has filled two outcome lists
C11_Witness ==
    /\ ultimo.op = "lote"
    /\ LET pats == Patrimonios(trim(ultimo.arg))
       IN  Len(pats) > Cardinality({pats[i] : i \in DOMAIN pats})
    /\ ultimo.lote.sucesso # <<>>
    /\ ultimo.lote.jaBipado # <<>>

\* C12: a batch is not transactional.  Whatever writes localStorage refuses
\* during the batch, every mark that existed before it and every mark it
\* created is in the marks afterwards, one new mark for each identifier
\* reported as registered; the persisted marks are those of the latest write
\* that was accepted: they hold the marks from before the batch and lose
\* none of the marks written so far; when no write was refused they are the
\* marks in memory.
C12_LoteNaoTransacional ==
    [][(ultimo'.op = "lote") =>
          /\ \A k \in DOMAIN bipagens :
                k \in DOMAIN bipagens' /\ bipagens'[k] = bipagens[k]
          /\ Cardinality(DOMAIN bipagens' \ DOMAIN bipagens) = Len(ultimo'.lote.sucesso)
          /\ \A k \in DOMAIN bipagens' \ DOMAIN bipagens : bipagens'[k] > relogio
          /\ \/ armazenado'.bipagens = armazenado.bipagens
             \/ /\ armazenado'.bipagens.presente
                /\ \A k \in DOMAIN bipagens :
                      /\ k \in DOMAIN armazenado'.bipagens.valor
                      /\ armazenado'.bipagens.valor[k] = bipagens[k]
                /\ \A k \in DOMAIN armazenado'.bipagens.valor :
                      /\ k \in DOMAIN bipagens'
                      /\ armazenado'.bipagens.valor[k] = bipagens'[k]
          /\ (ultimo'.lote.sucesso # <<>> /\ "bipagens" \notin ultimo'.falhas)
                => armazenado'.bipagens = Presente(bipagens')
      ]_vars

\* a batch registered two assets; the write after the first was accepted, the
\* write after the second was refused
C12_Witness ==
    /\ ultimo.op = "lote"
    /\ Len(ultimo.lote.sucesso) >= 2
    /\ "bipagens" \in ultimo.falhas
    /\ armazenado.bipagens.presente
    /\ DOMAIN armazenado.bipagens.valor # {}
    /\ DOMAIN armazenado.bipagens.valor # DOMAIN bipagens
    /\ \A k \in DOMAIN armazenado.bipagens.valor : k \in DOMAIN bipagens

(***************************************************************************)
(* Properties of the import                                                *)
(***************************************************************************)
\* C13: an import leaves as collection exactly the records it was given, in
\* their order; the persisted collection is that collection; the indices and
\* the lists are those of that collection; the marks and the log, in memory
\* and persisted, are as before.
C13_ImportarSubstitui ==
    [][(ultimo'.op = "importar") =>
          /\ itens' = ultimo'.entrada
          /\ armazenado'.inventario = Presente(itens')
          /\ indexPatrimonio' = IndexPatrimonioDe(itens')
          /\ indexPorCoordenacao' = IndexPorCoordenacaoDe(itens')
          /\ listaLocalizados' = ListaLocalizadosDe(itens')
          /\ listaPendentes' = ListaPendentesDe(itens')
          /\ listaBipados' \in ListasBipadosDe(itens', bipagens')
          /\ bipagens' = bipagens
          /\ historico' = historico
          /\ armazenado'.bipagens = armazenado.bipagens
          /\ armazenado'.historico = armazenado.historico
      ]_vars

\* C14: after an import, every asset of the new collection whose assetId has
\* a mark (from a registration before the import) is in the registered list
\* without any further scan, also as obterBipados recomputes it, and a scan of
\* that assetId returns 'ja_bipado' with the instant of the mark and leaves
\* the marks as they are.
C14_BipagemSobreviveImportacao ==
    (ultimo.op = "importar") =>
        \A i \in DOMAIN itens :
            LET a == itens[i].patrimonio
                r == registrarBipagem(bipagens, a, relogio + 1)
            IN  a \in DOMAIN bipagens =>
                   /\ \E j \in DOMAIN listaBipados : listaBipados[j] = itens[i]
                   /\ \A l \in ListasBipadosDe(itens, bipagens) :
                         \E j \in DOMAIN l : l[j] = itens[i]
                   /\ r.res.status = "ja_bipado"
                   /\ r.res.data_bipagem = bipagens[a]
                   /\ r.bip = bipagens

(***************************************************************************)
(* Properties of the statistics                                            *)
(***************************************************************************)
\* C15: in every state obterEstatisticas returns the length of the
\* collection, the lengths of the located and pending lists, the number of
\* keys of the marks, and as percentual the integer nearest to
\* 100 * localizados / total (halves up), 0 for an empty collection; so
\* percentual is in 0..100 and localizados + pendentes = total.  The values
\* kept between handlers are the same.
C15_EstatisticasExatas ==
    LET e == obterEstatisticas
    IN  /\ e.total = Len(itens)
        /\ e.localizados = Len(listaLocalizados)
        /\ e.pendentes = Len(listaPendentes)
        /\ e.bipados = Cardinality(DOMAIN bipagens)
        /\ e.total = 0 => e.percentual = 0
        /\ e.total > 0 =>
              /\ 2 * e.percentual * e.total <= 200 * e.localizados + e.total
              /\ 200 * e.localizados + e.total < 2 * (e.percentual + 1) * e.total
        /\ e.percentual \in 0..100
        /\ e.localizados + e.pendentes = e.total
        /\ estatisticas = e

\* C16: the summary an import returns is that of the state it leaves: total
\* is the number of records imported and the length of the collection,
\* localizados and pendentes are the lengths of the two lists just rebuilt
\* and the values obterEstatisticas returns, and total = localizados +
\* pendentes.
C16_ResumoDaImportacao ==
    (ultimo.op = "importar") =>
        /\ ultimo.resumo.total = Len(ultimo.entrada)
        /\ ultimo.resumo.total = Len(itens)
        /\ ultimo.resumo.localizados = Len(listaLocalizados)
        /\ ultimo.resumo.pendentes = Len(listaPendentes)
        /\ ultimo.resumo.total = obterEstatisticas.total
        /\ ultimo.resumo.localizados = obterEstatisticas.localizados
        /\ ultimo.resumo.pendentes = obterEstatisticas.pendentes
        /\ ultimo.resumo.total = ultimo.resumo.localizados + ultimo.resumo.pendentes

\* an import over an earlier collection has returned a summary with located
\* and pending assets
C16_Witness ==
    /\ ultimo.op = "importar"
    /\ ultimo.resumo.localizados > 0
    /\ ultimo.resumo.pendentes > 0
    /\ ultimo.resumo.total = 3
    /\ nPassos >= 2

(***************************************************************************)
(* Properties of the registered list                                       *)
(***************************************************************************)
\* C17: obterBipados without a search term returns exactly the assets of the
\* collection whose assetId has a mark, each as often as it is in the
\* collection, the later mark first.
C17_BipadosAoVivo ==
    (ultimo.op = "obterBipados") =>
        LET Vezes(s, x) == Cardinality({i \in DOMAIN s : s[i] = x})
        IN  /\ \A j \in DOMAIN listaBipados :
                  listaBipados[j].patrimonio \in DOMAIN bipagens
            /\ \A i \in DOMAIN itens :
                  itens[i].patrimonio \in DOMAIN bipagens
                  => Vezes(listaBipados, itens[i]) = Vezes(itens, itens[i])
            /\ \A j \in DOMAIN listaBipados :
                  Vezes(listaBipados, listaBipados[j]) = Vezes(itens, listaBipados[j])
            /\ \A j \in DOMAIN listaBipados, k \in DOMAIN listaBipados :
                  (/\ j < k
                   /\ listaBipados[j].patrimonio \in DOMAIN bipagens
                   /\ listaBipados[k].patrimonio \in DOMAIN bipagens)
                  => bipagens[listaBipados[j].patrimonio] >= bipagens[listaBipados[k].patrimonio]

\* C18: between handlers each of the three lists is the list
\* obtained from the collection and the marks: the located and pending lists
\* by the test on uorg_destino, the registered list by the test on the mark.
C18_SemDesvio ==
    /\ listaLocalizados = ListaLocalizadosDe(itens)
    /\ listaPendentes = ListaPendentesDe(itens)
    /\ listaBipados \in ListasBipadosDe(itens, bipagens)

(***************************************************************************)
(* Properties of the observations                                          *)
(***************************************************************************)
\* C19: the handler that saves an observation for an asset leaves every mark
\* with its instant, creates and removes no mark, and leaves the collection,
\* the indices and the three lists as they were.
C19_ObservacaoNaoAlteraMarcas ==
    [][(ultimo'.op = "observacao") =>
          /\ bipagens' = bipagens
          /\ armazenado'.bipagens = armazenado.bipagens
          /\ itens' = itens
          /\ indexPatrimonio' = indexPatrimonio
          /\ indexPorCoordenacao' = indexPorCoordenacao
          /\ listaLocalizados' = listaLocalizados
          /\ listaPendentes' = listaPendentes
          /\ listaBipados' = listaBipados
      ]_vars

\* an observation was saved for an asset that has its mark
C19_Witness ==
    /\ ultimo.op = "observacao"
    /\ ultimo.res.status \in {"sucesso", "ja_bipado"}
    /\ ultimo.arg \in DOMAIN bipagens
    /\ ultimo.entrada # <<>>

\* C20: once the user has saved a non-empty observation for an asset that is
\* registered, reading the observation of that asset (the registered list,
\* the dialog opened again) gives the text saved.
C20_ObservacaoLida ==
    (/\ ultimo.op = "observacao"
     /\ ultimo.res.status \in {"sucesso", "ja_bipado"}
     /\ ultimo.entrada # <<>>)
    => observacaoDe(bipagens, ultimo.arg) = ultimo.entrada

(***************************************************************************)
(* Properties of the resets and of the rejected imports                    *)
(***************************************************************************)
\* C21: after limparTudo the collection, the marks, the history, every index
\* and list and every persisted value are empty and the statistics are all
\* zero; after limparBipagens the marks and the history, in memory and
\* persisted, are empty while the collection, the two indices and the
\* located and pending lists are as before.
C21_LimpezaZera ==
    [][/\ (ultimo'.op = "limparTudo") =>
             /\ itens' = <<>>
             /\ bipagens' = SemBipagens
             /\ historico' = <<>>
             /\ DOMAIN indexPatrimonio' = {}
             /\ DOMAIN indexPorCoordenacao' = {}
             /\ listaLocalizados' = <<>>
             /\ listaPendentes' = <<>>
             /\ listaBipados' = <<>>
             /\ ~armazenado'.inventario.presente
             /\ ~armazenado'.bipagens.presente
             /\ ~armazenado'.historico.presente
             /\ estatisticas' = [total |-> 0, localizados |-> 0, pendentes |-> 0,
                                 bipados |-> 0, percentual |-> 0]
       /\ (ultimo'.op = "limparBipagens") =>
             /\ bipagens' = SemBipagens
             /\ historico' = <<>>
             /\ ~armazenado'.bipagens.presente
             /\ ~armazenado'.historico.presente
             /\ itens' = itens
             /\ armazenado'.inventario = armazenado.inventario
             /\ indexPatrimonio' = indexPatrimonio
             /\ indexPorCoordenacao' = indexPorCoordenacao
             /\ listaLocalizados' = listaLocalizados
             /\ listaPendentes' = listaPendentes
      ]_vars

\* the marks were cleared while a collection is loaded and scans had been
\* logged and persisted: the collection is still there
C21_Witness ==
    /\ ultimo.op = "limparBipagens"
    /\ itens # <<>>
    /\ listaLocalizados # <<>>
    /\ listaBipados # <<>>
    /\ armazenado.inventario.presente

\* C22: an import whose payload fails the structural checks (a value that is
\* not a sequence, a null record, a file without a valid row or without the
\* column patrimonio) is refused, and the collection, its persisted copy, the
\* indices, the lists, the marks and the history are as before the attempt.
C22_ImportacaoRejeitada ==
    [][/\ \A a \in Arquivos :
             (\/ ~a.texto
              \/ a.linhas = <<>>
              \/ "patrimonio" \notin Imagem(a.cabecalhos)
              \/ \A i \in DOMAIN a.linhas :
                    trim(valorDaColuna(a.cabecalhos, a.linhas[i], "patrimonio")) = <<>>)
             => parse(a) = <<>>
       /\ \A c \in Cargas :
             (~c.sequencia \/ SemItem \in Imagem(c.registros)) => importarLanca(c)
       /\ (ultimo'.op \in {"upload_rejeitado", "importar_lancou"}) =>
             /\ itens' = itens
             /\ armazenado' = armazenado
             /\ indexPatrimonio' = indexPatrimonio
             /\ indexPorCoordenacao' = indexPorCoordenacao
             /\ listaLocalizados' = listaLocalizados
             /\ listaPendentes' = listaPendentes
             /\ listaBipados' = listaBipados
             /\ bipagens' = bipagens
             /\ historico' = historico
      ]_vars

\* an import was refused while a collection, a mark and a history entry exist
C22_Witness ==
    /\ ultimo.op \in {"upload_rejeitado", "importar_lancou"}
    /\ itens # <<>>
    /\ bipagens # SemBipagens
    /\ historico # <<>>
    /\ armazenado.inventario.presente

(***************************************************************************)
(* Properties of the records with missing fields and of the queries        *)
(***************************************************************************)
\* C23: when every record of the collection has a non-blank patrimonio, the
\* rebuild cannot throw whatever optional fields are absent, a scan of such a
\* record returns one of the three outcomes, the queries on the lists and on
\* the groups are defined, a record without uorg_destino is
\* in the pending list and not in the located one, and a record without
\* coordenacao_destino is in no bucket of the grouping index.
C23_CamposAusentes ==
    (\A i \in DOMAIN itens :
        itens[i].patrimonio # Ausente /\ trim(itens[i].patrimonio) # <<>>)
    => /\ ~reconstruirIndicesLanca(itens)
       /\ \A i \in DOMAIN itens :
             /\ registrarBipagem(bipagens, itens[i].patrimonio, relogio + 1).res.status
                   \in {"sucesso", "ja_bipado", "nao_encontrado"}
             /\ Len(obterLocalizados(itens[i].patrimonio))
                  + Len(obterPendentes(itens[i].patrimonio)) >= 1
             /\ itens[i].uorg_destino = Ausente =>
                   /\ itens[i] \in Imagem(obterPendentes(<<>>))
                   /\ itens[i] \notin Imagem(obterLocalizados(<<>>))
             /\ itens[i].coordenacao_destino = Ausente =>
                   /\ obterPorCoordenacao(itens[i].coordenacao_destino) = <<>>
                   /\ \A c \in DOMAIN indexPorCoordenacao :
                         itens[i] \notin Imagem(indexPorCoordenacao[c])

\* an asset without uorg_destino and without coordenacao_destino was scanned
\* with success
C23_Witness ==
    /\ ultimo.op = "leitura"
    /\ ultimo.res.status = "sucesso"
    /\ ultimo.res.item \in Imagem(itens)
    /\ ultimo.res.item.uorg_destino = Ausente
    /\ ultimo.res.item.coordenacao_destino = Ausente

\* C24: a query (obterBipados, obterEstatisticas) changes neither the
\* collection, the marks, the history nor a persisted value; the results of
\* obterLocalizados, obterPendentes, obterPorCoordenacao, listarCoordenacoes,
\* obterHistorico and obterEstatisticas are the same after it as before it;
\* and a second obterBipados right after a first returns the same list.  Where
\* the comparator of the sort is inconsistent the order is the one the sort
\* algorithm of the engine leaves, a function of the same input, so that the
\* equality of the two lists is stated where the order is defined and the
\* equality of the possible lists everywhere.
C24_ConsultasPuras ==
    [][(ultimo'.op \in {"obterBipados", "obterEstatisticas"}) =>
          /\ itens' = itens
          /\ bipagens' = bipagens
          /\ historico' = historico
          /\ armazenado' = armazenado
          /\ \A b \in Buscas :
                /\ obterLocalizados(b)' = obterLocalizados(b)
                /\ obterPendentes(b)' = obterPendentes(b)
          /\ \A c \in Coordenacoes : obterPorCoordenacao(c)' = obterPorCoordenacao(c)
          /\ listarCoordenacoes' = listarCoordenacoes
          /\ \A n \in 0..3 : obterHistorico(n)' = obterHistorico(n)
          /\ obterEstatisticas' = obterEstatisticas
          /\ (ultimo'.op = "obterEstatisticas") => estatisticas' = obterEstatisticas
          /\ ListasBipadosDe(itens', bipagens') = ListasBipadosDe(itens, bipagens)
          /\ (ultimo'.op = "obterBipados") =>
                listaBipados' \in ListasBipadosDe(itens, bipagens)
          /\ (/\ ultimo.op = "obterBipados"
              /\ ultimo'.op = "obterBipados"
              /\ Cardinality(ListasBipadosDe(itens, bipagens)) = 1)
             => listaBipados' = listaBipados
      ]_vars

\* the registered list was asked for, as the last of the handlers, while some
\* assets of the collection have a persisted mark and others have none
C24_Witness ==
    /\ ultimo.op = "obterBipados"
    /\ nPassos = MaxPassos
    /\ listaBipados # <<>>
    /\ Len(listaBipados) < Len(itens)
    /\ armazenado.bipagens.presente

(***************************************************************************)
(* Properties of the versions a query sees                                 *)
(***************************************************************************)
\* C25: between two handlers, whatever their order, the primary index, the
\* grouping index and the located and pending lists are those built from the
\* current collection, and the registered list a query returns is built from
\* the current collection and the current marks; none is left from an older
\* collection or from a rebuild that did not reach its end.
C25_SemVersoesMistas ==
    /\ indexPatrimonio = IndexPatrimonioDe(itens)
    /\ indexPorCoordenacao = IndexPorCoordenacaoDe(itens)
    /\ listaLocalizados = ListaLocalizadosDe(itens)
    /\ listaPendentes = ListaPendentesDe(itens)
    /\ (ultimo.op = "obterBipados") => listaBipados \in ListasBipadosDe(itens, bipagens)
    /\ \A p \in Leituras :
          buscarPorPatrimonio(p) # SemItem => buscarPorPatrimonio(p) \in Imagem(itens)

(***************************************************************************)
(* Properties of the keys of the marks and of the indices                  *)
(***************************************************************************)
\* C26: the key a scan adds to the marks is the patrimonio of the record the
\* lookup found, as that record stores it, whatever the case and the blanks
\* of the scanned string; a batch adds only such keys; and after a scan has
\* registered an asset every scan string with the same normal form reads that
\* same key: it returns 'ja_bipado' for the same identifier and adds nothing.
C26_ChaveCanonica ==
    [][/\ (ultimo'.op = "leitura" /\ ultimo'.res.status = "sucesso") =>
             LET item == buscarPorPatrimonio(ultimo'.arg)
             IN  /\ item # SemItem
                 /\ item.patrimonio \notin DOMAIN bipagens
                 /\ DOMAIN bipagens' = DOMAIN bipagens \cup {item.patrimonio}
                 /\ ultimo'.res.patrimonio = item.patrimonio
                 /\ \A p \in Leituras :
                       toUpperCase(trim(p)) = toUpperCase(trim(ultimo'.arg)) =>
                          LET r == registrarBipagem(bipagens', p, relogio' + 1)
                          IN  /\ r.res.status = "ja_bipado"
                              /\ r.res.patrimonio = item.patrimonio
                              /\ r.res.data_bipagem = bipagens'[item.patrimonio]
                              /\ r.bip = bipagens'
       /\ (ultimo'.op \in {"leitura", "lote"}) =>
             (DOMAIN bipagens' \ DOMAIN bipagens)
                \subseteq {indexPatrimonio[k].patrimonio : k \in DOMAIN indexPatrimonio}
      ]_vars

\* the string 'a' was scanned, the record found stores 'A', and the mark is
\* under 'A' and not under 'a'
C26_Witness ==
    /\ ultimo.op = "leitura"
    /\ ultimo.res.status = "sucesso"
    /\ ultimo.arg = PA
    /\ ultimo.res.patrimonio = PAMaiusculo
    /\ PAMaiusculo \in DOMAIN bipagens
    /\ PA \notin DOMAIN bipagens

\* C27: when several records of the collection have identifiers with the same
\* normal form (trimmed, upper case), the lookup of any of these identifiers
\* returns the last of them in the order of the collection, and each of them
\* is still, as many times as in the collection, in the located or the
\* pending list and in the bucket of its coordenacao_destino.
C27_UltimoVence ==
    \A i \in DOMAIN itens :
        LET chave(it) == toUpperCase(trim(it.patrimonio))
            iguais == {j \in DOMAIN itens : chave(itens[j]) = chave(itens[i])}
            ultimoIgual == CHOOSE j \in iguais : \A m \in iguais : m <= j
            vezes(s) == Cardinality({j \in DOMAIN s : s[j] = itens[i]})
        IN  (itens[i].patrimonio # Ausente /\ Cardinality(iguais) >= 2) =>
               /\ buscarPorPatrimonio(itens[i].patrimonio) = itens[ultimoIgual]
               /\ buscarPorPatrimonio(chave(itens[i])) = itens[ultimoIgual]
               /\ vezes(listaLocalizados) + vezes(listaPendentes) = vezes(itens)
               /\ vezes(listaLocalizados) = IF temUorg(itens[i]) THEN vezes(itens) ELSE 0
               /\ coordDe(itens[i]) # <<>> =>
                     /\ coordDe(itens[i]) \in DOMAIN indexPorCoordenacao
                     /\ vezes(indexPorCoordenacao[coordDe(itens[i])]) = vezes(itens)

\* three records share the key 'A'; the lookup returns the last one, stored
\* as 'A', and the first one, stored as 'a', is in the located list and in
\* the bucket 'K'
C27_Witness ==
    /\ Len(itens) = 3
    /\ \A i \in DOMAIN itens : toUpperCase(trim(itens[i].patrimonio)) = PAMaiusculo
    /\ buscarPorPatrimonio(PA) = itens[3]
    /\ itens[1] # itens[3]
    /\ itens[1] \in Imagem(listaLocalizados)
    /\ <<"K">> \in DOMAIN indexPorCoordenacao
    /\ itens[1] \in Imagem(indexPorCoordenacao[<<"K">>])

\* C28: when reconstruirIndices has returned, the keys of the grouping index
\* are the trimmed non-blank values of coordenacao_destino of the collection
\* and the bucket of a key holds the records with that trimmed value in the
\* order of the collection; obterPorCoordenacao answers with the bucket of
\* the trimmed key and with an empty sequence for an absent, empty, blank or
\* unknown key; listarCoordenacoes lists every key once, in ascending order.
C28_IndicePorCoordenacao ==
    [][(\/ ultimo'.op = "importar"
        \/ /\ ultimo'.op \in {"importarBackup", "inicializar"}
           /\ primeiroNulo(carregar(armazenado'.inventario, <<>>)) = 0) =>
          LET chaves == {coordDe(itens'[i]) : i \in DOMAIN itens'} \ {<<>>}
              daCoord(g) == LET igual(it) == coordDe(it) = g IN SelectSeq(itens', igual)
              lista == listarCoordenacoes'
          IN  /\ DOMAIN indexPorCoordenacao' = chaves
              /\ \A g \in chaves : obterPorCoordenacao(g)' = daCoord(g)
              /\ \A c \in Coordenacoes :
                    obterPorCoordenacao(c)' =
                       IF c = Ausente \/ trim(c) \notin chaves THEN <<>> ELSE daCoord(trim(c))
              /\ Imagem(lista) = chaves
              /\ Len(lista) = Cardinality(chaves)
              /\ \A i, j \in DOMAIN lista : i < j => compararCodigos(lista[i], lista[j]) < 0
      ]_vars

\* a collection with the groups 'Z' and 'K', in this order, was imported: the
\* keys are listed as 'K', 'Z', the bucket 'Z' holds its two records in the
\* order of the import, and the key ' K ' reads the bucket 'K'
C28_Witness ==
    /\ ultimo.op = "importar"
    /\ Len(itens) = 3
    /\ coordDe(itens[1]) = <<"Z">>
    /\ listarCoordenacoes = << <<"K">>, <<"Z">> >>
    /\ obterPorCoordenacao(<<"Z">>) = <<itens[1], itens[3]>>
    /\ obterPorCoordenacao(<<" ", "K", " ">>) = <<itens[2]>>
    /\ obterPorCoordenacao(Vazio) = <<>>
    /\ obterPorCoordenacao(Ausente) = <<>>

\* C29: when reconstruirIndices has returned, the located and the pending
\* lists are in ascending order of patrimonio and the registered list is in
\* descending order of the instants of the marks; the list that obterBipados
\* computes afterwards is in descending order of the instants of the marks
\* too.
C29_ListasOrdenadas ==
    [][LET crescente(s) ==
               \A i, j \in DOMAIN s :
                   i < j => localeCompare(s[i].patrimonio, s[j].patrimonio) <= 0
           maisRecentesPrimeiro(s, bip) ==
               \A i, j \in DOMAIN s :
                   (i < j /\ DataValida(bip, s[i].patrimonio)
                          /\ DataValida(bip, s[j].patrimonio)) =>
                      LerBipagem(bip, s[i].patrimonio) >= LerBipagem(bip, s[j].patrimonio)
       IN  /\ (\/ ultimo'.op = "importar"
               \/ /\ ultimo'.op \in {"importarBackup", "inicializar"}
                  /\ primeiroNulo(carregar(armazenado'.inventario, <<>>)) = 0) =>
                 /\ crescente(listaLocalizados')
                 /\ crescente(listaPendentes')
                 /\ maisRecentesPrimeiro(listaBipados', bipagens')
           /\ (ultimo'.op = "obterBipados") =>
                 maisRecentesPrimeiro(listaBipados', bipagens')
      ]_vars

\* C30: for a limit n >= 0, obterHistorico(n) is the sequence of the first
\* min(n, length) entries of the log, the latest first, and the handler that
\* reads the log with it leaves the log as it was.
C30_HistoricoPrefixo ==
    [][/\ \A n \in 0..4 \cup {10, MAX_HISTORICO + 1} :
             LET r == obterHistorico(n)'
                 tam == Len(historico')
             IN  /\ Len(r) = IF n < tam THEN n ELSE tam
                 /\ \A i \in DOMAIN r : r[i] = historico'[i]
                 /\ \A i, j \in DOMAIN r : i < j => r[i].timestamp >= r[j].timestamp
       /\ (ultimo'.op = "observacao") => historico' = historico
      ]_vars

\* the panel has read, with the limit 10, a log of two different entries; with
\* the limit 1 the result is the latest entry alone
C30_Witness ==
    /\ ultimo.op = "observacao"
    /\ Len(historico) >= 2
    /\ historico[1] # historico[2]
    /\ historico[1].timestamp > historico[2].timestamp
    /\ obterHistorico(10) = historico
    /\ obterHistorico(1) = <<historico[1]>>
    /\ obterHistorico(0) = <<>>

(***************************************************************************)
(* Properties of the results of a scan under misses, failures and reloads  *)
(***************************************************************************)
\* C31: a scan whose lookup finds no record returns 'nao_encontrado' with the
\* scanned string without the blanks around it, in the case it was scanned
\* in, and with no record attached; and a scan returns 'nao_encontrado' only
\* when the lookup finds no record.
C31_NaoEncontrado ==
    [][(ultimo'.op = "leitura") =>
          /\ (buscarPorPatrimonio(ultimo'.arg) = SemItem) =>
                /\ ultimo'.res.status = "nao_encontrado"
                /\ ultimo'.res.patrimonio = trim(ultimo'.arg)
                /\ ultimo'.res.item = SemItem
                /\ ultimo'.res.data_bipagem = INDEFINIDO
                /\ bipagens' = bipagens
          /\ (ultimo'.res.status = "nao_encontrado") =>
                buscarPorPatrimonio(ultimo'.arg) = SemItem
      ]_vars

\* ' A ' was scanned while the collection is not empty and has no such
\* record: the result names 'A'
C31_Witness ==
    /\ ultimo.op = "leitura"
    /\ ultimo.arg = <<" ", "A", " ">>
    /\ ultimo.res.status = "nao_encontrado"
    /\ ultimo.res.patrimonio = PAMaiusculo
    /\ itens # <<>>

\* C32: when localStorage refuses a write during a scan or an import, the
\* handler ends as it does otherwise: the value kept in localStorage under the
\* refused key stays as it was, the marks, the log, the collection, the
\* indices and the statistics in memory are those of the operation, and the
\* scans and queries that follow work on them (a scan that registered an
\* asset is answered 'ja_bipado' when repeated, the imported records are
\* found and counted).
C32_FalhaDeEscritaTolerada ==
    [][(ultimo'.falhas # {}) =>
          /\ (ultimo'.op \in {"leitura", "importar"}) =>
                \A chave \in ultimo'.falhas : armazenado'[chave] = armazenado[chave]
          /\ (ultimo'.op = "leitura") =>
                LET r == registrarBipagem(bipagens, ultimo'.arg, relogio')
                IN  /\ ultimo'.res = r.res
                    /\ bipagens' = r.bip
                    /\ historico' = adicionarHistorico(historico, r.res)
                    /\ obterHistorico(1)' = <<r.res>>
                    /\ estatisticas' = obterEstatisticas'
                    /\ (r.res.status = "sucesso") =>
                          /\ r.res.patrimonio \in DOMAIN bipagens'
                          /\ registrarBipagem(bipagens', ultimo'.arg, relogio' + 1).res.status
                                = "ja_bipado"
          /\ (ultimo'.op = "importar") =>
                /\ itens' = importar(ultimo'.entrada)
                /\ indexPatrimonio' = IndexPatrimonioDe(itens')
                /\ indexPorCoordenacao' = IndexPorCoordenacaoDe(itens')
                /\ listaLocalizados' = ListaLocalizadosDe(itens')
                /\ listaPendentes' = ListaPendentesDe(itens')
                /\ obterEstatisticas'.total = Len(ultimo'.entrada)
                /\ ultimo'.resumo.total = Len(ultimo'.entrada)
                /\ \A i \in DOMAIN itens' :
                      /\ itens'[i].patrimonio # <<>>
                      /\ toUpperCase(trim(itens'[i].patrimonio)) \in DOMAIN indexPatrimonio'
          /\ (ultimo'.op = "lote") =>
                /\ \A i \in DOMAIN ultimo'.lote.sucesso :
                      buscarPorPatrimonio(ultimo'.lote.sucesso[i]).patrimonio
                         \in DOMAIN bipagens'
                /\ Len(historico') >= Len(historico)
      ]_vars

\* the write of the marks was refused during a scan that registered an
\* asset: the mark is in memory and not in localStorage
C32_Witness ==
    /\ ultimo.op = "leitura"
    /\ ultimo.res.status = "sucesso"
    /\ "bipagens" \in ultimo.falhas
    /\ ultimo.res.patrimonio \in DOMAIN bipagens
    /\ ~armazenado.bipagens.presente

\* C33: when no write was refused so far, loading the page again gives the
\* collection, the marks and the log that were in memory, and the same
\* answers of the queries.
C33_RecargaEquivalente ==
    [][(ultimo'.op = "inicializar" /\ nFalhas = 0) =>
          /\ itens' = itens
          /\ bipagens' = bipagens
          /\ historico' = historico
          /\ indexPatrimonio' = indexPatrimonio
          /\ indexPorCoordenacao' = indexPorCoordenacao
          /\ listaLocalizados' = listaLocalizados
          /\ listaPendentes' = listaPendentes
          /\ obterEstatisticas' = obterEstatisticas
          /\ ListasBipadosDe(itens', bipagens') = ListasBipadosDe(itens, bipagens)
          /\ \A n \in 0..3 : obterHistorico(n)' = obterHistorico(n)
      ]_vars

(***************************************************************************)
(* Properties of identifiers that collide                                  *)
(***************************************************************************)
\* C34: in every state, for every record of the collection whose patrimonio
\* has no mark, a scan of that patrimonio returns 'sucesso' for that record
\* and puts a mark under its patrimonio, also when another record has an
\* identifier with the same letters in another case.
C34_TodoItemRegistravel ==
    \A i \in DOMAIN itens :
        (itens[i].patrimonio # Ausente /\ itens[i].patrimonio \notin DOMAIN bipagens) =>
           LET r == registrarBipagem(bipagens, itens[i].patrimonio, relogio + 1)
           IN  /\ r.res.status = "sucesso"
               /\ r.res.item = itens[i]
               /\ itens[i].patrimonio \in DOMAIN r.bip

\* C35: an identifier counts as registered only when the marks hold an entry
\* of their own for it: verificarBipagem answers with a date only then, a
\* scan is answered 'ja_bipado' only then, and the registered list, after a
\* rebuild and as obterBipados computes it, holds only records with such an
\* entry; this for every identifier, 'constructor' included.
C35_SoMarcasExplicitas ==
    /\ \A p \in {itens[i].patrimonio : i \in DOMAIN itens} :
          verificarBipagem(p) # INDEFINIDO => p \in DOMAIN bipagens
    /\ \A p \in Leituras :
          LET r == registrarBipagem(bipagens, p, relogio + 1)
          IN  (p # <<>> /\ r.res.status = "ja_bipado") =>
                 r.res.patrimonio \in DOMAIN bipagens
    /\ \A lista \in ListasBipadosDe(itens, bipagens) :
          \A i \in DOMAIN lista : lista[i].patrimonio \in DOMAIN bipagens

\* C36: in the result of one batch no asset is both in the list of the newly
\* registered and in the list of the already registered identifiers, also
\* when the batch holds two identifiers with the same letters in another
\* case.
C36_ListasDoLoteDisjuntas ==
    [][(ultimo'.op = "lote") =>
          \A i \in DOMAIN ultimo'.lote.sucesso, j \in DOMAIN ultimo'.lote.jaBipado :
              buscarPorPatrimonio(ultimo'.lote.sucesso[i])
                 # buscarPorPatrimonio(ultimo'.lote.jaBipado[j])
      ]_vars

(***************************************************************************)
(* Properties of the import, of the backup and of the camera               *)
(***************************************************************************)
\* C37: after an import, for every record handed to importar with a
\* patrimonio that is not blank, the record stored in its place has a
\* patrimonio that is not blank, the lookup of the patrimonio as it was
\* handed in finds a record with the stored patrimonio (the last of them when
\* several share the key), and sanitizing the stored patrimonio again gives
\* the same string.
C37_ImportarPreservaIds ==
    [][(ultimo'.op = "importar") =>
          \A i \in DOMAIN ultimo'.entrada :
              LET dado == ultimo'.entrada[i].patrimonio
                  chave == toUpperCase(trim(dado))
              IN  (dado # Ausente /\ trim(dado) # <<>>) =>
                     /\ i \in DOMAIN itens'
                     /\ trim(itens'[i].patrimonio) # <<>>
                     /\ chave \in DOMAIN indexPatrimonio'
                     /\ toUpperCase(indexPatrimonio'[chave].patrimonio)
                           = toUpperCase(itens'[i].patrimonio)
                     /\ sanitizar(itens'[i].patrimonio) = itens'[i].patrimonio
      ]_vars

\* C38: a document that is not an object, that has no dados, whose inventario
\* or historico is not an array or whose bipagens is not an object is
\* refused, and a refused document leaves localStorage as it was; an accepted
\* document replaces the three stored values by its parts, a missing part by
\* the empty default; and restoring what exportarBackup returns leaves the
\* values that localStorage holds as they were.
C38_RestauracaoTudoOuNada ==
    [][LET parteInvalida(b, parte) == b.tipos[parte] \in {"falso", "outro"}
           invalido(b) ==
               \/ ~b.objeto
               \/ ~b.temDados
               \/ parteInvalida(b, "inventario")
               \/ parteInvalida(b, "bipagens")
               \/ parteInvalida(b, "historico")
           substituido(b) ==
               [inventario |-> Presente(ParteOuPadrao(b, "inventario", <<>>)),
                bipagens   |-> Presente(ParteOuPadrao(b, "bipagens", SemBipagens)),
                historico  |-> Presente(ParteOuPadrao(b, "historico", <<>>))]
           lido(arm) ==
               [inventario |-> carregar(arm.inventario, <<>>),
                bipagens   |-> carregar(arm.bipagens, SemBipagens),
                historico  |-> carregar(arm.historico, <<>>)]
       IN  /\ (ultimo'.op = "backup_rejeitado") => armazenado' = armazenado
           /\ (ultimo'.op = "importarBackup") =>
                 /\ \A b \in Backups : invalido(b) => ~BackupAceito(b)
                 /\ \E b \in Backups \cup {exportarBackup} :
                       /\ BackupAceito(b)
                       /\ armazenado' = substituido(b)
           /\ BackupAceito(exportarBackup)
           /\ lido(salvarTudo(exportarBackup, TRUE, TRUE, TRUE)) = lido(armazenado)
      ]_vars


\* C39: while the camera is active, a detected code is delivered to the scan
\* callback exactly when it differs from the last delivered code or more than
\* the window has elapsed since the last delivery; so the same code is never
\* delivered twice within one window, and after parar() no detection is
\* delivered until iniciar() is called again.
C39_DuplicadasSuprimidas ==
    [][observado'.op = "deteccao" /\ nPassos' # nPassos =>
         LET d == observado'
             difere == d.codigo # observado.ultimaEntrega
             passou == d.instante - observado.instanteUltimaEntrega > JANELA_MS
         IN  /\ camera.ativa /\ d.codigo # Vazio =>
                   (d.entregue <=> (difere \/ passou))
             /\ d.entregue /\ d.codigo \in DOMAIN observado.entregas =>
                   d.instante - observado.entregas[d.codigo] > JANELA_MS
             /\ observado.parado => ~d.entregue]_vars
=============================================================================
